---- MODULE Spec2Model ----
(***************************************************************************)
(* A model of the core of the Tock kernel: the process record and its      *)
(* memory layout (kernel/src/process.rs), the scheduler (kernel/src/       *)
(* sched.rs), the grant allocator (kernel/src/grant.rs) and the Cortex-M   *)
(* system call shim (arch/cortex-m/src/syscall.rs).                        *)
(*                                                                         *)
(* Pointers are machine words: every pointer computation is taken modulo   *)
(* 2^PtrBits.  The null pointer is 0.  An Option is a record with an       *)
(* is_some field.                                                          *)
(***************************************************************************)
EXTENDS Integers, Sequences, FiniteSets, TLC

VARIABLES
    processes,   \* Kernel.processes: slot index -> process record or NoProcess
    work,        \* Kernel.work: the global count of "to-do" items
    sched,       \* where kernel_loop / do_process stand, and the chip's state
    last,        \* the last operation performed, its arguments and its result
    panicked     \* TRUE once the kernel has panicked (it halts)

vars == <<processes, work, sched, last, panicked>>

----------------------------------------------------------------------------
(* Bounds of the model.                                                    *)

\* Width of a machine word (usize, *const u8) in the model.
PtrBits == 16
\* procs.len(): the number of process slots the board provides.
NumProcs == 2
\* Capacity of a process's task ring buffer (the source allocates 10 slots;
\* the model checks a smaller queue).
callback_len == 2
\* grant::CONTAINER_COUNTER after boot: the number of grant kinds created.
CONTAINER_COUNTER == 2
\* Restarts the model follows, over all processes.
MaxRestarts == 1
\* IPC tasks the IPC driver leaves waiting in one queue under SpecLoop.
MaxQueuedIpc == 1
\* Grant closures the model follows one inside the other.
MaxNesting == 2
\* Callbacks the model lets the kernel drop, over all processes.
MaxDropped == 1
\* Callbacks SpecFifo lets drivers schedule, over all processes.
MaxTasks == 2

----------------------------------------------------------------------------
(* Sizes the build fixes.                                                  *)

\* mem::size_of::<*const usize>()
grant_ptr_size == 4
\* mem::size_of::<Task>()
callback_size == 24
\* mem::size_of::<Process<S>>()
process_struct_offset == 152
\* Process::create: the stack pointer and the break start 128 bytes into RAM.
InitialOffset == 128
\* An exception frame is 8 words: r0-r3, r12, lr, pc, xPSR.
FrameWords == 8
\* The initial program status word: Thumb bit set, everything else clear.
DefaultPsr == 16777216

PtrMod == 2 ^ PtrBits
FrameBytes == FrameWords * grant_ptr_size

Procs == 0 .. (NumProcs - 1)
Grants == 0 .. (CONTAINER_COUNTER - 1)

NULL == 0

\* The entries of a process's table of IPC MPU regions.
MpuRegionCount == 5
NoProcess == [is_some |-> FALSE]
NoTask == [is_some |-> FALSE]

----------------------------------------------------------------------------
(* Pointer arithmetic.                                                     *)

\* core::ptr::offset on a machine word: the sum wraps modulo 2^PtrBits.
offset(ptr, count) == (ptr + count) % PtrMod

\* `x as isize`: the word reinterpreted as a signed number.
as_isize(x) == IF x >= PtrMod \div 2 THEN x - PtrMod ELSE x

\* `x | 1`
or1(x) == IF x % 2 = 1 THEN x ELSE x + 1

\* common::math::closest_power_of_two: the smallest power of two >= n.
RECURSIVE PowerOfTwoFrom(_, _)
PowerOfTwoFrom(p, n) == IF p >= n THEN p ELSE PowerOfTwoFrom(2 * p, n)
closest_power_of_two(n) == PowerOfTwoFrom(1, n)

Max(a, b) == IF a >= b THEN a ELSE b

\* u32::count_ones: the number of bits set in n.
RECURSIVE count_ones(_)
count_ones(n) == IF n = 0 THEN 0 ELSE (n % 2) + count_ones(n \div 2)

\* common::math::PowerOfTwo holds the exponent x of the number 2^x.
\* PowerOfTwo::floor(n): the largest power of two <= n.
RECURSIVE PowerOfTwo_floor(_)
PowerOfTwo_floor(n) == IF n <= 1 THEN 0 ELSE 1 + PowerOfTwo_floor(n \div 2)

PowerOfTwo_zero == 0

\* PowerOfTwo::as_num
as_num(pow) == 2 ^ pow

----------------------------------------------------------------------------
(* common::RingBuffer, the bounded FIFO that backs a process's task queue. *)

RingBuffer_len(ring) == Len(ring)
RingBuffer_is_full(ring) == Len(ring) >= callback_len
\* enqueue: appends unless full; returns whether it did.
RingBuffer_enqueue(ring, val) ==
    IF RingBuffer_is_full(ring)
    THEN [ring |-> ring, ret |-> FALSE]
    ELSE [ring |-> Append(ring, val), ret |-> TRUE]
\* dequeue: removes and returns the head, if any.
RingBuffer_dequeue(ring) ==
    IF Len(ring) = 0
    THEN [ring |-> ring, ret |-> NoTask]
    ELSE [ring |-> Tail(ring), ret |-> Head(ring)]
RingBuffer_empty(ring) == << >>

----------------------------------------------------------------------------
(* Tasks.                                                                  *)

FunctionCall(pc, r0, r1, r2, r3) ==
    [is_some |-> TRUE, kind |-> "FunctionCall",
     pc |-> pc, r0 |-> r0, r1 |-> r1, r2 |-> r2, r3 |-> r3]

IPC(from, cb_type) ==
    [is_some |-> TRUE, kind |-> "IPC", from |-> from, cb_type |-> cb_type]

----------------------------------------------------------------------------
(* The application binary header and the flash it is read from.            *)

Header(total_size, is_app, enabled, minimum_app_ram_size, init_function_offset, protected_size) ==
    [is_some |-> TRUE, total_size |-> total_size, is_app |-> is_app,
     enabled |-> enabled, minimum_app_ram_size |-> minimum_app_ram_size,
     init_function_offset |-> init_function_offset,
     protected_size |-> protected_size]

NoHeader == [is_some |-> FALSE]

\* tbfheader::parse_and_validate_tbf_header: the header that starts at
\* address addr of the flash, if one does.  A flash is a start address and
\* the headers of the images laid out from it, one after the other.
RECURSIVE HeaderFrom(_, _, _, _)
HeaderFrom(images, k, at, addr) ==
    IF k > Len(images) THEN NoHeader
    ELSE IF at = addr THEN images[k]
    ELSE HeaderFrom(images, k + 1, at + images[k].total_size, addr)
parse_and_validate_tbf_header(flash, addr) ==
    HeaderFrom(flash.images, 1, flash.start, addr)

----------------------------------------------------------------------------
(* Process::create.                                                        *)

\* The bytes create reserves at the top of the process's RAM: the grant
\* pointers, the task ring buffer and the process structure.
KernelReserved ==
    CONTAINER_COUNTER * grant_ptr_size
        + callback_len * callback_size + process_struct_offset

\* The task that starts (or restarts) a process at its init function.
InitTask(flash_start, header, mem_start, mem_len, app_brk) ==
    FunctionCall(offset(flash_start, header.init_function_offset),
                 flash_start + header.protected_size,
                 mem_start, mem_len, app_brk)

create(w, flash, app_flash_address, remaining_app_memory, remaining_app_memory_size, fault_response) ==
    LET tbf_header == parse_and_validate_tbf_header(flash, app_flash_address)
    IN
    IF ~tbf_header.is_some
    THEN [process |-> NoProcess, flash_offset |-> 0, memory_offset |-> 0,
          work |-> w, panic |-> FALSE]
    ELSE IF ~tbf_header.is_app \/ ~tbf_header.enabled
    THEN [process |-> NoProcess, flash_offset |-> tbf_header.total_size,
          memory_offset |-> 0, work |-> w, panic |-> FALSE]
    ELSE
    LET app_flash_size == tbf_header.total_size
        init_fn == offset(app_flash_address, tbf_header.init_function_offset)
        initial_stack_pointer == offset(remaining_app_memory, InitialOffset)
        initial_sbrk_pointer == offset(remaining_app_memory, InitialOffset)
        min_app_ram_size ==
            Max(tbf_header.minimum_app_ram_size, KernelReserved)
        app_ram_size == closest_power_of_two(min_app_ram_size)
        mem_end == offset(remaining_app_memory, app_ram_size)
        kernel_memory_break == offset(mem_end, -KernelReserved)
        tasks == RingBuffer_enqueue(<< >>,
                    InitTask(app_flash_address, tbf_header,
                             remaining_app_memory, app_ram_size,
                             initial_sbrk_pointer)).ring
        process ==
            [is_some |-> TRUE,
             mem_start |-> remaining_app_memory,
             mem_len |-> app_ram_size,
             kernel_memory_break |-> kernel_memory_break,
             original_kernel_memory_break |-> kernel_memory_break,
             app_break |-> initial_sbrk_pointer,
             original_app_break |-> initial_sbrk_pointer,
             current_stack_pointer |-> initial_stack_pointer,
             original_stack_pointer |-> initial_stack_pointer,
             flash_start |-> app_flash_address,
             flash_len |-> app_flash_size,
             header |-> tbf_header,
             yield_pc |-> init_fn,
             psr |-> DefaultPsr,
             state |-> "Yielded",
             fault_response |-> fault_response,
             grant_ptrs |-> [g \in Grants |-> NULL],
             tasks |-> tasks,
             dropped_callback_count |-> 0,
             restart_count |-> 0,
             mpu_regions |-> [i \in 1..MpuRegionCount |->
                                [base |-> NULL, size |-> PowerOfTwo_zero]],
             \* history, not a field of the struct: the byte ranges alloc
             \* has handed out since create or the last restart
             allocated |-> << >>]
    IN
    IF app_ram_size > remaining_app_memory_size \/ init_fn % 2 # 1
    THEN [process |-> NoProcess, flash_offset |-> 0, memory_offset |-> 0,
          work |-> w, panic |-> TRUE]
    ELSE [process |-> process, flash_offset |-> app_flash_size,
          memory_offset |-> app_ram_size, work |-> w + 1, panic |-> FALSE]

\* load_processes that leaves app_memory_ptr where it was after a create.
RECURSIVE LoadFrom_same_memory(_, _, _, _)
LoadFrom_same_memory(i, st, flash, fault_response) ==
    IF i >= NumProcs \/ st.panic THEN st
    ELSE
    LET c == create(st.work, flash, st.apps_in_flash_ptr, st.app_memory_ptr,
                    st.app_memory_size, fault_response)
        next == [procs |-> IF c.process.is_some
                           THEN [st.procs EXCEPT ![i] = c.process]
                           ELSE st.procs,
                 apps_in_flash_ptr |-> offset(st.apps_in_flash_ptr, c.flash_offset),
                 app_memory_ptr |-> st.app_memory_ptr,
                 app_memory_size |-> st.app_memory_size - c.memory_offset,
                 work |-> c.work,
                 panic |-> c.panic]
    IN
    IF c.panic THEN next
    ELSE IF ~c.process.is_some /\ c.flash_offset = 0 /\ c.memory_offset = 0
    THEN st
    ELSE LoadFrom_same_memory(i + 1, next, flash, fault_response)

(* load_processes: one create per slot of procs, from consecutive flash    *)
(* headers, until a header does not parse.                                 *)
RECURSIVE LoadFrom(_, _, _, _)
LoadFrom(i, st, flash, fault_response) ==
    IF i >= NumProcs \/ st.panic THEN st
    ELSE
    LET c == create(st.work, flash, st.apps_in_flash_ptr, st.app_memory_ptr,
                    st.app_memory_size, fault_response)
        next == [procs |-> IF c.process.is_some
                           THEN [st.procs EXCEPT ![i] = c.process]
                           ELSE st.procs,
                 apps_in_flash_ptr |-> offset(st.apps_in_flash_ptr, c.flash_offset),
                 app_memory_ptr |-> offset(st.app_memory_ptr, c.memory_offset),
                 app_memory_size |-> st.app_memory_size - c.memory_offset,
                 work |-> c.work,
                 panic |-> c.panic]
    IN
    IF c.panic THEN next
    ELSE IF ~c.process.is_some /\ c.flash_offset = 0 /\ c.memory_offset = 0
    THEN st
    ELSE LoadFrom(i + 1, next, flash, fault_response)

load_processes(board) ==
    LoadFrom(0,
             [procs |-> [i \in Procs |-> NoProcess],
              apps_in_flash_ptr |-> board.flash.start,
              app_memory_ptr |-> board.app_memory_start,
              app_memory_size |-> board.app_memory_len,
              work |-> 0,
              panic |-> FALSE],
             board.flash, board.fault_response)

----------------------------------------------------------------------------
(* Kernel: the work counter.                                               *)

increment_work(w) == w + 1
decrement_work(w) == w - 1

\* processes_blocked that reports no work whatever the counter holds.
processes_blocked_always(w) == TRUE

processes_blocked(w) == w = 0

----------------------------------------------------------------------------
(* The process record's operations (impl ProcessType for Process).  Each   *)
(* takes the process record (and the kernel's work counter where the code  *)
(* touches it) and yields the record after the call and what it returns.   *)

mem_start(proc) == proc.mem_start
mem_end(proc) == offset(proc.mem_start, proc.mem_len)

Ok(v) == [ok |-> TRUE, val |-> v, err |-> "", len |-> 0]
Err(e) == [ok |-> FALSE, val |-> 0, err |-> e, len |-> 0]
Some(ptr, len) == [ok |-> TRUE, val |-> ptr, err |-> "", len |-> len]
None == [ok |-> FALSE, val |-> 0, err |-> "None", len |-> 0]
Unit == [ok |-> TRUE, val |-> 0, err |-> "", len |-> 0]
Bool(b) == [ok |-> b, val |-> 0, err |-> "", len |-> 0]

\* schedule that drops a callback without counting the drop.
schedule_uncounted_drop(proc, w, callback) ==
    IF proc.state = "Fault"
    THEN [proc |-> proc, work |-> w, ret |-> FALSE]
    ELSE
    LET e == RingBuffer_enqueue(proc.tasks, callback)
    IN [proc |-> [proc EXCEPT !.tasks = e.ring],
        work |-> increment_work(w),
        ret |-> e.ret]

schedule(proc, w, callback) ==
    IF proc.state = "Fault"
    THEN [proc |-> proc, work |-> w, ret |-> FALSE]
    ELSE
    LET e == RingBuffer_enqueue(proc.tasks, callback)
    IN [proc |-> [proc EXCEPT
                    !.tasks = e.ring,
                    !.dropped_callback_count = IF e.ret THEN @ ELSE @ + 1],
        work |-> increment_work(w),
        ret |-> e.ret]

schedule_ipc(proc, w, from, cb_type) ==
    LET e == RingBuffer_enqueue(proc.tasks, IPC(from, cb_type))
    IN [proc |-> [proc EXCEPT
                    !.tasks = e.ring,
                    !.dropped_callback_count = IF e.ret THEN @ ELSE @ + 1],
        work |-> increment_work(w)]

\* yield_state that does not look at the state the process is in.
yield_state_any(proc, w) ==
    [proc |-> [proc EXCEPT !.state = "Yielded"],
     work |-> decrement_work(w)]

yield_state(proc, w) ==
    IF proc.state = "Running"
    THEN [proc |-> [proc EXCEPT !.state = "Yielded"],
          work |-> decrement_work(w)]
    ELSE [proc |-> proc, work |-> w]

\* grant_ptrs_reset whose loop stops one slot short.
grant_ptrs_reset_short(proc) ==
    [proc EXCEPT !.grant_ptrs =
        [g \in Grants |-> IF g = CONTAINER_COUNTER - 1 THEN @[g] ELSE NULL]]

\* Reset all grant pointers to NULL.
grant_ptrs_reset(proc) ==
    [proc EXCEPT !.grant_ptrs = [g \in Grants |-> NULL]]

\* fault_state that also empties the IPC MPU region table.
fault_state_clears_mpu(proc, w) ==
    IF proc.fault_response = "Panic"
    THEN [proc |-> [proc EXCEPT !.state = "Fault"], work |-> w,
          panic |-> TRUE]
    ELSE
    LET tasks_len == RingBuffer_len(proc.tasks)
        init_fn == offset(proc.flash_start, proc.header.init_function_offset)
        reset ==
            [grant_ptrs_reset(proc) EXCEPT
                !.tasks = RingBuffer_empty(proc.tasks),
                !.restart_count = @ + 1,
                !.dropped_callback_count = 0,
                !.yield_pc = init_fn,
                !.psr = DefaultPsr,
                !.state = "Yielded",
                !.kernel_memory_break = proc.original_kernel_memory_break,
                !.app_break = proc.original_app_break,
                !.current_stack_pointer = proc.original_stack_pointer,
                !.mpu_regions = [i \in DOMAIN @ |->
                                   [@[i] EXCEPT !.base = NULL]]]
        queued ==
            RingBuffer_enqueue(reset.tasks,
                InitTask(proc.flash_start, proc.header, proc.mem_start,
                         proc.mem_len, reset.app_break)).ring
    IN [proc |-> [reset EXCEPT !.tasks = queued],
        work |-> increment_work(w - tasks_len),
        panic |-> FALSE]

\* fault_state that restarts the process without marking it Yielded.
fault_state_stays_fault(proc, w) ==
    IF proc.fault_response = "Panic"
    THEN [proc |-> [proc EXCEPT !.state = "Fault"], work |-> w,
          panic |-> TRUE]
    ELSE
    LET tasks_len == RingBuffer_len(proc.tasks)
        init_fn == offset(proc.flash_start, proc.header.init_function_offset)
        reset ==
            [grant_ptrs_reset(proc) EXCEPT
                !.tasks = RingBuffer_empty(proc.tasks),
                !.restart_count = @ + 1,
                !.dropped_callback_count = 0,
                !.yield_pc = init_fn,
                !.psr = DefaultPsr,
                !.state = "Fault",
                !.kernel_memory_break = proc.original_kernel_memory_break,
                !.app_break = proc.original_app_break,
                !.current_stack_pointer = proc.original_stack_pointer]
        queued ==
            RingBuffer_enqueue(reset.tasks,
                InitTask(proc.flash_start, proc.header, proc.mem_start,
                         proc.mem_len, reset.app_break)).ring
    IN [proc |-> [reset EXCEPT !.tasks = queued],
        work |-> increment_work(w - tasks_len),
        panic |-> FALSE]

fault_state(proc, w) ==
    IF proc.fault_response = "Panic"
    THEN [proc |-> [proc EXCEPT !.state = "Fault"], work |-> w,
          panic |-> TRUE]
    ELSE
    LET tasks_len == RingBuffer_len(proc.tasks)
        init_fn == offset(proc.flash_start, proc.header.init_function_offset)
        reset ==
            [grant_ptrs_reset(proc) EXCEPT
                !.tasks = RingBuffer_empty(proc.tasks),
                !.restart_count = @ + 1,
                !.dropped_callback_count = 0,
                !.yield_pc = init_fn,
                !.psr = DefaultPsr,
                !.state = "Yielded",
                !.kernel_memory_break = proc.original_kernel_memory_break,
                !.app_break = proc.original_app_break,
                !.current_stack_pointer = proc.original_stack_pointer]
        queued ==
            RingBuffer_enqueue(reset.tasks,
                InitTask(proc.flash_start, proc.header, proc.mem_start,
                         proc.mem_len, reset.app_break)).ring
    IN [proc |-> [reset EXCEPT !.tasks = queued],
        work |-> increment_work(w - tasks_len),
        panic |-> FALSE]

\* dequeue_task that takes the newest task of the queue.
dequeue_task_newest(proc, w) ==
    IF Len(proc.tasks) = 0
    THEN [proc |-> proc, work |-> w, ret |-> NoTask]
    ELSE [proc |-> [proc EXCEPT
                      !.tasks = SubSeq(proc.tasks, 1, Len(proc.tasks) - 1)],
          work |-> decrement_work(w), ret |-> proc.tasks[Len(proc.tasks)]]

dequeue_task(proc, w) ==
    LET d == RingBuffer_dequeue(proc.tasks)
    IN IF d.ret.is_some
       THEN [proc |-> [proc EXCEPT !.tasks = d.ring],
             work |-> decrement_work(w), ret |-> d.ret]
       ELSE [proc |-> proc, work |-> w, ret |-> NoTask]

\* brk without the comparison against the kernel memory break.
brk_unchecked_kernel_break(proc, new_break) ==
    IF new_break < mem_start(proc) \/ new_break >= mem_end(proc)
    THEN [proc |-> proc, ret |-> Err("AddressOutOfBounds")]
    ELSE [proc |-> [proc EXCEPT !.app_break = new_break],
          ret |-> Ok(proc.app_break)]

\* brk that returns the new break instead of the old one.
brk_returns_new_break(proc, new_break) ==
    IF new_break < mem_start(proc) \/ new_break >= mem_end(proc)
    THEN [proc |-> proc, ret |-> Err("AddressOutOfBounds")]
    ELSE IF new_break > proc.kernel_memory_break
    THEN [proc |-> proc, ret |-> Err("OutOfMemory")]
    ELSE [proc |-> [proc EXCEPT !.app_break = new_break],
          ret |-> Ok(new_break)]

brk(proc, new_break) ==
    IF new_break < mem_start(proc) \/ new_break >= mem_end(proc)
    THEN [proc |-> proc, ret |-> Err("AddressOutOfBounds")]
    ELSE IF new_break > proc.kernel_memory_break
    THEN [proc |-> proc, ret |-> Err("OutOfMemory")]
    ELSE [proc |-> [proc EXCEPT !.app_break = new_break],
          ret |-> Ok(proc.app_break)]

\* The loop of add_mpu_region that takes the first empty entry whatever
\* the entries before it hold.
RECURSIVE AddRegionFrom_no_reuse(_, _, _, _)
AddRegionFrom_no_reuse(regions, i, base, mpu_size) ==
    IF i > MpuRegionCount
    THEN [regions |-> regions, ret |-> FALSE]
    ELSE IF regions[i].base = NULL
    THEN [regions |-> [regions EXCEPT
                         ![i] = [base |-> base, size |-> mpu_size]],
          ret |-> TRUE]
    ELSE AddRegionFrom_no_reuse(regions, i + 1, base, mpu_size)

\* The loop of add_mpu_region over the entries from the i-th on: the first
\* entry that is empty or holds base ends it.
RECURSIVE AddRegionFrom(_, _, _, _)
AddRegionFrom(regions, i, base, mpu_size) ==
    IF i > MpuRegionCount
    THEN [regions |-> regions, ret |-> FALSE]
    ELSE IF regions[i].base = NULL
    THEN [regions |-> [regions EXCEPT
                         ![i] = [base |-> base, size |-> mpu_size]],
          ret |-> TRUE]
    ELSE IF regions[i].base = base
    THEN [regions |-> IF regions[i].size < mpu_size
                      THEN [regions EXCEPT
                              ![i] = [base |-> base, size |-> mpu_size]]
                      ELSE regions,
          ret |-> TRUE]
    ELSE AddRegionFrom(regions, i + 1, base, mpu_size)

sbrk(proc, increment) ==
    brk(proc, offset(proc.app_break, increment))

\* add_mpu_region that does not ask for base to be aligned to size.
add_mpu_region_unaligned(proc, base, size) ==
    IF size >= 16 /\ count_ones(size) = 1
    THEN LET r == AddRegionFrom(proc.mpu_regions, 1, base,
                                PowerOfTwo_floor(size))
         IN [proc |-> [proc EXCEPT !.mpu_regions = r.regions], ret |-> r.ret]
    ELSE [proc |-> proc, ret |-> FALSE]

add_mpu_region(proc, base, size) ==
    IF size >= 16 /\ count_ones(size) = 1 /\ base % size = 0
    THEN LET r == AddRegionFrom(proc.mpu_regions, 1, base,
                                PowerOfTwo_floor(size))
         IN [proc |-> [proc EXCEPT !.mpu_regions = r.regions], ret |-> r.ret]
    ELSE [proc |-> proc, ret |-> FALSE]

in_exposed_bounds(proc, buf_start_addr, size) ==
    LET buf_end_addr == offset(buf_start_addr, as_isize(size))
    IN buf_start_addr >= mem_start(proc) /\ buf_end_addr <= mem_end(proc)

\* ReturnCode as isize, the value a system call leaves in r0.
ReturnCode_into(res) ==
    CASE res = "SUCCESS" -> 0
      [] res = "FAIL" -> -1
      [] res = "EINVAL" -> -6
      [] res = "ENODEVICE" -> -11

\* What the ALLOW arm hands to Driver::allow: nothing, or the slice argument.
NotInvoked == [invoked |-> FALSE]
Invoked(appid, allow_num, slice) ==
    [invoked |-> TRUE, appid |-> appid, allow_num |-> allow_num,
     slice |-> slice]
NoSlice == [is_some |-> FALSE]
AppSlice_new(ptr, len, appid) ==
    [is_some |-> TRUE, ptr |-> ptr, len |-> len, process |-> appid]

\* The ALLOW arm that builds the slice without asking in_exposed_bounds.
syscall_allow_unchecked(proc, appid, has_driver, r1, r2, r3, driver_res) ==
    IF has_driver
    THEN IF r2 # NULL
         THEN [res |-> driver_res,
               call |-> Invoked(appid, r1, AppSlice_new(r2, r3, appid))]
         ELSE [res |-> driver_res, call |-> Invoked(appid, r1, NoSlice)]
    ELSE [res |-> "ENODEVICE", call |-> NotInvoked]

\* What the SUBSCRIBE and COMMAND arms hand to the driver.
Subscribed(subdriver_num, callback, appid) ==
    [invoked |-> TRUE, method |-> "subscribe",
     subdriver_num |-> subdriver_num, callback |-> callback, appid |-> appid]
Commanded(r1, r2, r3, appid) ==
    [invoked |-> TRUE, method |-> "command",
     r1 |-> r1, r2 |-> r2, r3 |-> r3, appid |-> appid]
NoCallback == [is_some |-> FALSE]

\* The COMMAND arm that calls the driver without looking whether there is
\* one.
syscall_command_any_driver(appid, has_driver, r1, r2, r3, driver_res) ==
    [res |-> driver_res, call |-> Commanded(r1, r2, r3, appid)]

\* The COMMAND arm of do_process.
syscall_command(appid, has_driver, r1, r2, r3, driver_res) ==
    IF has_driver
    THEN [res |-> driver_res, call |-> Commanded(r1, r2, r3, appid)]
    ELSE [res |-> "ENODEVICE", call |-> NotInvoked]

\* The SUBSCRIBE arm of do_process: a null function pointer is no callback.
syscall_subscribe(appid, has_driver, r1, r2, r3, driver_res) ==
    LET callback == IF r2 # NULL
                    THEN [is_some |-> TRUE, app_id |-> appid,
                          appdata |-> r3, fn_ptr |-> r2]
                    ELSE NoCallback
    IN IF has_driver
       THEN [res |-> driver_res, call |-> Subscribed(r1, callback, appid)]
       ELSE [res |-> "ENODEVICE", call |-> NotInvoked]

\* The ALLOW arm of do_process for a process that passed (r0, r1, r2, r3):
\* has_driver says whether the platform has a driver numbered r0, and
\* driver_res is what its allow returns if it is called.
syscall_allow(proc, appid, has_driver, r1, r2, r3, driver_res) ==
    IF has_driver
    THEN IF r2 # NULL
         THEN IF in_exposed_bounds(proc, r2, r3)
              THEN [res |-> driver_res,
                    call |-> Invoked(appid, r1, AppSlice_new(r2, r3, appid))]
              ELSE [res |-> "EINVAL", call |-> NotInvoked]
         ELSE [res |-> driver_res, call |-> Invoked(appid, r1, NoSlice)]
    ELSE [res |-> "ENODEVICE", call |-> NotInvoked]

\* alloc that hands out the range without moving the kernel memory break.
alloc_keeps_break(proc, size) ==
    LET new_break == offset(proc.kernel_memory_break, -as_isize(size))
    IN IF new_break < proc.app_break
       THEN [proc |-> proc, ret |-> None]
       ELSE [proc |-> proc, ret |-> Some(new_break, size)]

\* alloc that moves the kernel memory break up instead of down.
alloc_upward(proc, size) ==
    LET new_break == offset(proc.kernel_memory_break, as_isize(size))
    IN IF new_break < proc.app_break
       THEN [proc |-> proc, ret |-> None]
       ELSE [proc |-> [proc EXCEPT !.kernel_memory_break = new_break],
             ret |-> Some(new_break, size)]

alloc(proc, size) ==
    LET new_break == offset(proc.kernel_memory_break, -as_isize(size))
    IN IF new_break < proc.app_break
       THEN [proc |-> proc, ret |-> None]
       ELSE [proc |-> [proc EXCEPT !.kernel_memory_break = new_break],
             ret |-> Some(new_break, size)]

grant_for(proc, grant_num) == proc.grant_ptrs[grant_num]

\* The lazy allocation behind Grant::enter: the grant's pointer if it is
\* set, or else a fresh alloc of the payload recorded in the grant's slot.
\* grant_for_or_alloc that allocates on every call, not only the first.
grant_for_or_alloc_eager(proc, grant_num, grant_size) ==
    LET a == alloc(proc, grant_size)
    IN IF a.ret.ok
       THEN [proc |-> [a.proc EXCEPT !.grant_ptrs[grant_num] = a.ret.val],
             ret |-> Some(a.ret.val, grant_size)]
       ELSE [proc |-> proc, ret |-> None]

grant_for_or_alloc(proc, grant_num, grant_size) ==
    IF grant_for(proc, grant_num) = NULL
    THEN LET a == alloc(proc, grant_size)
         IN IF a.ret.ok
            THEN [proc |-> [a.proc EXCEPT !.grant_ptrs[grant_num] = a.ret.val],
                  ret |-> Some(a.ret.val, grant_size)]
            ELSE [proc |-> proc, ret |-> None]
    ELSE [proc |-> proc, ret |-> Some(grant_for(proc, grant_num), grant_size)]

\* pop_syscall_stack that leaves the stack pointer at the frame.
pop_syscall_stack_keeps_sp(proc, frame_pc, frame_psr) ==
    [proc EXCEPT !.yield_pc = frame_pc, !.psr = frame_psr]

\* pop_syscall_stack: frame_pc and frame_psr are the words the hardware
\* stacked in slots 6 and 7 of the exception frame at the stack pointer.
pop_syscall_stack(proc, frame_pc, frame_psr) ==
    [proc EXCEPT
        !.yield_pc = frame_pc,
        !.psr = frame_psr,
        !.current_stack_pointer = offset(@, FrameBytes)]

\* The words push_function_call writes at stack_bottom: r0-r3 in slots 0 to
\* 3, LR in slot 5, PC in slot 6 and xPSR in slot 7 (slot 4, r12, is not
\* written).
StackFrame(stack_bottom, callback, lr, pc, psr) ==
    [stack_bottom |-> stack_bottom,
     w0 |-> callback.r0, w1 |-> callback.r1, w2 |-> callback.r2,
     w3 |-> callback.r3, lr |-> lr, pc |-> pc, psr |-> psr]

\* push_function_call that does not count the process it makes Running.
push_function_call_uncounted(proc, w, callback) ==
    [proc |-> [proc EXCEPT
                !.state = "Running",
                !.current_stack_pointer = offset(@, -FrameBytes)],
     work |-> w,
     frame |-> StackFrame(offset(proc.current_stack_pointer, -FrameBytes),
                          callback, or1(proc.yield_pc), or1(callback.pc),
                          proc.psr)]

\* push_function_call that stores the saved PC in the LR slot as it is.
push_function_call_plain_lr(proc, w, callback) ==
    [proc |-> [proc EXCEPT
                !.state = "Running",
                !.current_stack_pointer = offset(@, -FrameBytes)],
     work |-> increment_work(w),
     frame |-> StackFrame(offset(proc.current_stack_pointer, -FrameBytes),
                          callback, proc.yield_pc, or1(callback.pc),
                          proc.psr)]

\* push_function_call: the process becomes Running and the frame the SVC
\* handler expects is written 8 words below its stack pointer.
push_function_call(proc, w, callback) ==
    [proc |-> [proc EXCEPT
                !.state = "Running",
                !.current_stack_pointer = offset(@, -FrameBytes)],
     work |-> increment_work(w),
     frame |-> StackFrame(offset(proc.current_stack_pointer, -FrameBytes),
                          callback, or1(proc.yield_pc), or1(callback.pc),
                          proc.psr)]

----------------------------------------------------------------------------
(* Inputs: what user code and drivers pass in.                             *)

\* Break addresses a process asks for: around the start of its RAM, its
\* first break, the kernel memory break and the end of its RAM.
BrkTargets(proc) ==
    { offset(mem_start(proc), -4), mem_start(proc), proc.original_app_break,
      proc.kernel_memory_break, offset(proc.kernel_memory_break, 4),
      offset(mem_end(proc), -4), mem_end(proc), offset(mem_end(proc), 4) }

\* Increments a process passes to sbrk.
SbrkIncrements == { -128, 512, -(PtrMod \div 2) }

\* Sizes drivers allocate through Allocator::alloc (size_of::<T>()).
AllocSizes == { 0, 256 }

\* size_of::<T>() of the payload of grant kind grant_num.
grant_size(grant_num) == 256

\* Stack pointers user code can return to the kernel with: the hardware has
\* stacked an exception frame there, inside the RAM the MPU lets the process
\* write.
UserStackPointers(proc) ==
    { offset(mem_start(proc), 64) }

\* The return address and status word the hardware stacks on an exception.
UserPCs == { 4608 }
UserPSRs == { DefaultPsr }

\* Callbacks drivers hold (from SUBSCRIBE) and the arguments they pass.
Callback(app_id, appdata, fn_ptr) ==
    [app_id |-> app_id, appdata |-> appdata, fn_ptr |-> fn_ptr]
\* The process in slot 0 has subscribed to a driver's callback.
Callbacks == { Callback(0, 48879, 3840) }

\* The process in slot 1 is an IPC service, the one in slot 0 its client.
IPCRoutes == { [to |-> 1, from |-> 0, cb_type |-> "Service"] }

Loaded == { p \in Procs : processes[p].is_some }

\* The counters the model caps: restarts and dropped callbacks, over all
\* processes.
RECURSIVE SumOver(_, _)
SumOver(f, S) ==
    IF S = {} THEN 0
    ELSE LET x == CHOOSE y \in S : TRUE IN f[x] + SumOver(f, S \ {x})
Dropped(procs) ==
    SumOver([p \in Procs |-> IF procs[p].is_some THEN procs[p].dropped_callback_count ELSE 0], Procs)
Restarts(procs) ==
    SumOver([p \in Procs |-> IF procs[p].is_some THEN procs[p].restart_count ELSE 0], Procs)

Op(op, p, arg, ret) == [op |-> op, p |-> p, arg |-> arg, ret |-> ret]

----------------------------------------------------------------------------
(* Actions: the calls the scheduler, the system call path and the drivers  *)
(* make on a process.                                                      *)

\* MEMOP brk of a running process.
Brk(p, new_break) ==
    /\ ~panicked
    /\ processes[p].is_some /\ processes[p].state = "Running"
    /\ LET r == brk(processes[p], new_break)
       IN /\ processes' = [processes EXCEPT ![p] = r.proc]
          /\ last' = Op("brk", p, new_break, r.ret)
    /\ UNCHANGED <<work, sched, panicked>>

\* MEMOP sbrk of a running process.
Sbrk(p, increment) ==
    /\ ~panicked
    /\ processes[p].is_some /\ processes[p].state = "Running"
    /\ LET r == sbrk(processes[p], increment)
       IN /\ processes' = [processes EXCEPT ![p] = r.proc]
          /\ last' = Op("sbrk", p, increment, r.ret)
    /\ UNCHANGED <<work, sched, panicked>>

\* Kernel::process_map_or for an index: "default" when it returns the
\* default, "closure" when it runs the closure on the process, "panic" when
\* indexing the process array panics.
process_map_or(procs, process_index) ==
    IF process_index > NumProcs THEN "default"
    ELSE IF process_index = NumProcs THEN "panic"
    ELSE IF procs[process_index].is_some THEN "closure"
    ELSE "default"

\* The history of a process after alloc returned ret: a range of at least
\* one byte is recorded.
Handed(proc, ret) ==
    IF ret.ok /\ ret.len > 0
    THEN [proc EXCEPT !.allocated =
            Append(@, [ptr |-> ret.val, len |-> ret.len])]
    ELSE proc

\* Allocator::alloc, called by a driver inside a grant's enter closure.
AllocatorAlloc(p, size) ==
    /\ ~panicked
    /\ LET found == process_map_or(processes, p)
       IN IF found = "closure"
          THEN /\ \E g \in Grants : grant_for(processes[p], g) # NULL
               /\ LET r == alloc(processes[p], size)
                  IN /\ processes' = [processes EXCEPT
                                        ![p] = Handed(r.proc, r.ret)]
                     /\ last' = Op("alloc", p, size,
                                   IF r.ret.ok THEN r.ret
                                   ELSE Err("OutOfMemory"))
               /\ UNCHANGED panicked
          ELSE /\ processes' = processes
               /\ panicked' = (found = "panic")
               /\ last' = Op("alloc", p, size,
                             IF found = "panic" THEN Err("panic")
                             ELSE Err("NoSuchApp"))
    /\ UNCHANGED <<work, sched>>

\* Grant::enter for grant kind grant_num and the process in slot p.
GrantEnterCall(p, grant_num) ==
    /\ ~panicked
    /\ LET found == process_map_or(processes, p)
       IN IF found = "closure"
          THEN LET r == grant_for_or_alloc(processes[p], grant_num,
                                           grant_size(grant_num))
               IN /\ processes' = [processes EXCEPT ![p] =
                        IF grant_for(processes[p], grant_num) = NULL
                        THEN Handed(r.proc, r.ret) ELSE r.proc]
                  /\ last' = Op("enter", p, grant_num,
                                IF r.ret.ok THEN r.ret
                                ELSE Err("OutOfMemory"))
                  /\ UNCHANGED panicked
          ELSE /\ processes' = processes
               /\ panicked' = (found = "panic")
               /\ last' = Op("enter", p, grant_num,
                             IF found = "panic" THEN Err("panic")
                             ELSE Err("NoSuchApp"))
    /\ UNCHANGED work

GrantEnter(p, grant_num) ==
    GrantEnterCall(p, grant_num) /\ UNCHANGED sched

\* Callback::schedule: a driver schedules a callback for a process.
ScheduleOn(cb, r0, r1, r2) ==
    /\ LET p == cb.app_id
           call == FunctionCall(cb.fn_ptr, r0, r1, r2, cb.appdata)
       IN IF processes[p].is_some
          THEN LET r == schedule(processes[p], work, call)
               IN /\ processes' = [processes EXCEPT ![p] = r.proc]
                  /\ Dropped(processes') <= MaxDropped
                  /\ work' = r.work
                  /\ last' = Op("schedule", p, call, Bool(r.ret))
          ELSE /\ UNCHANGED <<processes, work>>
               /\ last' = Op("schedule", p, call, Bool(FALSE))
    /\ UNCHANGED panicked

CallbackScheduleCall(cb, r0, r1, r2) ==
    ~panicked /\ ScheduleOn(cb, r0, r1, r2)

CallbackSchedule(cb, r0, r1, r2) ==
    CallbackScheduleCall(cb, r0, r1, r2) /\ UNCHANGED sched

\* The same call on the record of a process the kernel has panicked over.
CallbackScheduleHalted(cb, r0, r1, r2) ==
    panicked /\ ScheduleOn(cb, r0, r1, r2) /\ UNCHANGED sched

\* schedule_ipc: the IPC driver notifies process p on behalf of process from.
ScheduleIpcOn(p, from, cb_type) ==
    /\ processes[p].is_some
    /\ LET r == schedule_ipc(processes[p], work, from, cb_type)
       IN /\ processes' = [processes EXCEPT ![p] = r.proc]
          /\ Dropped(processes') <= MaxDropped
          /\ work' = r.work
          /\ last' = Op("schedule_ipc", p, IPC(from, cb_type), Unit)
    /\ UNCHANGED panicked

ScheduleIpcCall(p, from, cb_type) ==
    ~panicked /\ ScheduleIpcOn(p, from, cb_type)

ScheduleIpc(p, from, cb_type) ==
    ScheduleIpcCall(p, from, cb_type) /\ UNCHANGED sched

\* The same call on the record of a process the kernel has panicked over.
ScheduleIpcHalted(p, from, cb_type) ==
    panicked /\ ScheduleIpcOn(p, from, cb_type) /\ UNCHANGED sched

\* do_process on a Yielded process: dequeue a task; push a function call,
\* or hand an IPC task to the IPC driver (which schedules its callbacks
\* through Callback::schedule, as every driver does).
DeliverTaskCall(p) ==
    /\ ~panicked
    /\ processes[p].is_some /\ processes[p].state = "Yielded"
    /\ LET d == dequeue_task(processes[p], work)
       IN IF ~d.ret.is_some
          THEN /\ UNCHANGED <<processes, work>>
               /\ last' = Op("dequeue_task", p, 0, None)
          ELSE IF d.ret.kind = "FunctionCall"
          THEN LET r == push_function_call(d.proc, d.work, d.ret)
               IN /\ processes' = [processes EXCEPT ![p] = r.proc]
                  /\ work' = r.work
                  /\ last' = Op("push_function_call", p, d.ret, r.frame)
          ELSE /\ processes' = [processes EXCEPT ![p] = d.proc]
               /\ work' = d.work
               /\ last' = Op("ipc", p, d.ret, Unit)
    /\ UNCHANGED panicked

DeliverTask(p) ==
    DeliverTaskCall(p) /\ UNCHANGED sched

\* The YIELD system call of a running process: yield_state, then
\* pop_syscall_stack.
YieldSyscallCall(p, frame_pc, frame_psr) ==
    /\ ~panicked
    /\ processes[p].is_some /\ processes[p].state = "Running"
    /\ LET y == yield_state(processes[p], work)
       IN /\ processes' = [processes EXCEPT
                ![p] = pop_syscall_stack(y.proc, frame_pc, frame_psr)]
          /\ work' = y.work
          /\ last' = Op("yield", p, frame_pc, Unit)
    /\ UNCHANGED panicked

YieldSyscall(p, frame_pc, frame_psr) ==
    YieldSyscallCall(p, frame_pc, frame_psr) /\ UNCHANGED sched

\* What fault_state found: the queue's length, the grants entered, and
\* whether the breaks had moved.
FaultFound(proc) ==
    [tasks_len |-> Len(proc.tasks),
     entered |-> { g \in Grants : proc.grant_ptrs[g] # NULL },
     moved |-> << proc.kernel_memory_break # proc.original_kernel_memory_break,
                  proc.app_break # proc.original_app_break >>]

\* A running process returns to the kernel with reason Fault.
ProcessFaultCall(p) ==
    /\ ~panicked
    /\ processes[p].is_some /\ processes[p].state = "Running"
    /\ Restarts(processes) < MaxRestarts
    /\ LET f == fault_state(processes[p], work)
       IN /\ processes' = [processes EXCEPT ![p] =
                IF f.panic THEN f.proc
                ELSE [f.proc EXCEPT !.allocated = << >>]]
          /\ work' = f.work
          /\ panicked' = f.panic
          /\ last' = Op("fault_state", p, FaultFound(processes[p]),
                        Bool(~f.panic))

ProcessFault(p) ==
    ProcessFaultCall(p) /\ UNCHANGED sched

\* do_process on a Running process: user code runs and returns to the
\* kernel with a new stack pointer.
SwitchToProcess(p, new_sp) ==
    /\ ~panicked
    /\ processes[p].is_some /\ processes[p].state = "Running"
    /\ processes' = [processes EXCEPT ![p].current_stack_pointer = new_sp]
    /\ last' = Op("switch_to", p, new_sp, Unit)
    /\ UNCHANGED <<work, sched, panicked>>

----------------------------------------------------------------------------
(* Boards: the flash images and the app memory the kernel boots with.      *)

AppHeader(minimum_app_ram_size) ==
    Header(4096, TRUE, TRUE, minimum_app_ram_size, 129, 128)

Board(images, fault_response) ==
    [flash |-> [start |-> 4096, images |-> images],
     app_memory_start |-> 32768,
     app_memory_len |-> 8192,
     fault_response |-> fault_response]

FaultResponses == { "Panic", "Restart" }

\* The minimum RAM size the images' headers ask for.
MinimumRamSizes == { 1024 }

\* One application in flash.
BoardsOne ==
    { Board(<<AppHeader(m)>>, fr) : m \in MinimumRamSizes, fr \in FaultResponses }

\* Two applications in flash.
BoardsTwo ==
    { Board(<<AppHeader(1024), AppHeader(1024)>>, fr) : fr \in FaultResponses }

\* live: the grant closures the kernel is inside of, innermost last.
SchedBoot == [pc |-> "boot", i |-> 0, pending |-> FALSE, live |-> << >>]

Boot(boards) ==
    \E board \in boards :
        LET st == load_processes(board)
        IN /\ ~st.panic
           /\ processes = st.procs
           /\ work = st.work
           /\ panicked = FALSE
           /\ sched = SchedBoot
           /\ last = Op("boot", 0, 0, Unit)

----------------------------------------------------------------------------
(* Spec: one process, its memory operations and its life cycle.            *)

Init == Boot(BoardsOne)

Next ==
    \/ \E p \in Loaded : \E nb \in BrkTargets(processes[p]) : Brk(p, nb)
    \/ \E p \in Loaded : \E inc \in SbrkIncrements : Sbrk(p, inc)
    \/ \E p \in Procs : \E size \in AllocSizes : AllocatorAlloc(p, size)
    \/ \E p \in Procs : \E g \in Grants : GrantEnter(p, g)
    \/ \E p \in Loaded : DeliverTask(p)
    \/ \E p \in Loaded : \E pc \in UserPCs : \E psr \in UserPSRs :
            YieldSyscall(p, pc, psr)
    \/ \E p \in Loaded : ProcessFault(p)
    \/ \E p \in Loaded : \E sp \in UserStackPointers(processes[p]) :
            SwitchToProcess(p, sp)

Spec == Init /\ [][Next]_vars

----------------------------------------------------------------------------
(* SpecWork: two processes, their task queues, their states and the        *)
(* kernel's work counter.                                                  *)

InitWork == Boot(BoardsTwo)

NextWork ==
    \/ \E cb \in Callbacks : CallbackSchedule(cb, 1, 2, 3)
    \/ \E r \in IPCRoutes : ScheduleIpc(r.to, r.from, r.cb_type)
    \/ \E p \in Loaded : DeliverTask(p)
    \/ \E p \in Loaded : \E pc \in UserPCs : \E psr \in UserPSRs :
            YieldSyscall(p, pc, psr)
    \/ \E p \in Loaded : ProcessFault(p)

SpecWork == InitWork /\ [][NextWork]_vars

----------------------------------------------------------------------------
(* SpecRestart: one process under the Restart policy: it moves its break,  *)
(* drivers enter grants and schedule callbacks for it, and it faults.      *)

BoardsRestart == { Board(<<AppHeader(1024)>>, "Restart") }

InitRestart == Boot(BoardsRestart)

NextRestart ==
    \/ \E p \in Loaded : \E nb \in BrkTargets(processes[p]) : Brk(p, nb)
    \/ \E p \in Loaded : \E g \in Grants : GrantEnter(p, g)
    \/ \E cb \in Callbacks : CallbackSchedule(cb, 1, 2, 3)
    \/ \E p \in Loaded : DeliverTask(p)
    \/ \E p \in Loaded : \E pc \in UserPCs : \E psr \in UserPSRs :
            YieldSyscall(p, pc, psr)
    \/ \E p \in Loaded : \E sp \in UserStackPointers(processes[p]) :
            SwitchToProcess(p, sp)
    \/ \E p \in Loaded : ProcessFault(p)

SpecRestart == InitRestart /\ [][NextRestart]_vars

----------------------------------------------------------------------------
(* SpecFaulted: SpecWork under the Panic policy, followed past the panic   *)
(* by the calls a driver makes on the record of the faulted process.       *)

BoardsPanic == { Board(<<AppHeader(1024), AppHeader(1024)>>, "Panic") }

InitFaulted == Boot(BoardsPanic)

NextFaulted ==
    \/ NextWork
    \/ \E cb \in Callbacks : CallbackScheduleHalted(cb, 1, 2, 3)
    \/ \E r \in IPCRoutes : ScheduleIpcHalted(r.to, r.from, r.cb_type)

SpecFaulted == InitFaulted /\ [][NextFaulted]_vars

----------------------------------------------------------------------------
(* Memory properties of one process, checked under Spec.                   *)

\* C1: for every loaded process, at every scheduler boundary,
\* mem_start <= current_stack_pointer <= app_break <= kernel_memory_break
\* <= mem_start + mem_len.
C1_PointerOrdering ==
    \A p \in Loaded :
        LET proc == processes[p]
        IN /\ mem_start(proc) <= proc.current_stack_pointer
           /\ proc.current_stack_pointer <= proc.app_break
           /\ proc.app_break <= proc.kernel_memory_break
           /\ proc.kernel_memory_break <= mem_end(proc)

\* C2: for a process whose create left app_break <= kernel_memory_break,
\* mem_start <= app_break <= kernel_memory_break <= mem_end in every state:
\* no brk or sbrk raises app_break above the kernel memory break and no
\* alloc lowers the kernel memory break below app_break.
C2_HeapKernelIsolation ==
    \A p \in Loaded :
        LET proc == processes[p]
        IN proc.original_app_break <= proc.original_kernel_memory_break =>
              /\ mem_start(proc) <= proc.app_break
              /\ proc.app_break <= proc.kernel_memory_break
              /\ proc.kernel_memory_break <= mem_end(proc)

\* The heap has grown exactly up to a kernel memory break that grants have
\* already lowered, and the last brk was the one that got there.
C2_Witness ==
    \E p \in Loaded :
        /\ last.op = "brk" /\ last.p = p /\ last.ret.ok
        /\ processes[p].original_app_break
              <= processes[p].original_kernel_memory_break
        /\ processes[p].app_break = processes[p].kernel_memory_break
        /\ processes[p].kernel_memory_break
              < processes[p].original_kernel_memory_break

\* C7: the kernel memory break of a process changes only in a successful
\* alloc (down by exactly the size asked for, a grant's first enter
\* included) and in a restart (back to original_kernel_memory_break); it
\* never rises between restarts.
C7_GrantMonotonicity ==
    [][\A p \in Loaded :
         LET old == processes[p].kernel_memory_break
             new == processes'[p].kernel_memory_break
         IN new # old =>
              \/ /\ last'.op = "alloc" /\ last'.p = p /\ last'.ret.ok
                 /\ new = old - last'.arg
                 /\ new <= old
              \/ /\ last'.op = "enter" /\ last'.p = p /\ last'.ret.ok
                 /\ processes[p].grant_ptrs[last'.arg] = NULL
                 /\ new = old - grant_size(last'.arg)
                 /\ new <= old
              \/ /\ last'.op = "fault_state" /\ last'.p = p
                 /\ processes'[p].restart_count
                       = processes[p].restart_count + 1
                 /\ new = processes[p].original_kernel_memory_break
      ]_vars

\* A restarted process has allocated grant memory again: the break was
\* put back by the restart and lowered by an alloc after it.
C7_Witness ==
    \E p \in Loaded :
        /\ processes[p].restart_count > 0
        /\ last.op = "alloc" /\ last.p = p /\ last.ret.ok /\ last.arg > 0
        /\ processes[p].kernel_memory_break
              < processes[p].original_kernel_memory_break

\* C10: sbrk(n) asks for app_break + n and brk(a) for a.  On success
\* app_break becomes the target and the call returns the previous break;
\* on failure the error is OutOfMemory or AddressOutOfBounds and app_break,
\* kernel_memory_break and current_stack_pointer are unchanged.
C10_BreakResult ==
    [][\A p \in Loaded :
         (last'.op \in {"brk", "sbrk"} /\ last'.p = p) =>
            LET old == processes[p]
                new == processes'[p]
                target == IF last'.op = "brk" THEN last'.arg
                          ELSE offset(old.app_break, last'.arg)
            IN IF last'.ret.ok
               THEN /\ new.app_break = target
                    /\ last'.ret.val = old.app_break
                    /\ new.kernel_memory_break = old.kernel_memory_break
                    /\ new.current_stack_pointer = old.current_stack_pointer
               ELSE /\ last'.ret.err \in {"OutOfMemory", "AddressOutOfBounds"}
                    /\ new.app_break = old.app_break
                    /\ new.kernel_memory_break = old.kernel_memory_break
                    /\ new.current_stack_pointer = old.current_stack_pointer
      ]_vars

\* An sbrk of a heap that had already moved fails with OutOfMemory against
\* a kernel memory break that a grant has lowered.
C10_Witness ==
    \E p \in Loaded :
        /\ last.op = "sbrk" /\ last.p = p
        /\ ~last.ret.ok /\ last.ret.err = "OutOfMemory"
        /\ processes[p].app_break # processes[p].original_app_break
        /\ processes[p].kernel_memory_break
              < processes[p].original_kernel_memory_break

----------------------------------------------------------------------------
(* Restart, checked under SpecRestart.                                     *)

\* C6: after fault_state on a process with fault policy Restart, app_break,
\* current_stack_pointer and kernel_memory_break equal their create-time
\* originals, every grant-table slot is null, the task queue holds exactly
\* the init FunctionCall (pc = init_fn, r0 = flash start + protected size,
\* r1 = mem_start, r2 = RAM size, r3 = original app_break), the state is
\* Yielded, and restart_count has grown by exactly one.
C6_RestartPostcondition ==
    [][\A p \in Loaded :
         (last'.op = "fault_state" /\ last'.p = p
            /\ processes[p].fault_response = "Restart") =>
            LET old == processes[p]
                new == processes'[p]
            IN /\ new.app_break = old.original_app_break
               /\ new.current_stack_pointer = old.original_stack_pointer
               /\ new.kernel_memory_break = old.original_kernel_memory_break
               /\ new.original_app_break = old.original_app_break
               /\ new.original_stack_pointer = old.original_stack_pointer
               /\ new.original_kernel_memory_break
                     = old.original_kernel_memory_break
               /\ \A g \in Grants : new.grant_ptrs[g] = NULL
               /\ new.tasks =
                     << [is_some |-> TRUE, kind |-> "FunctionCall",
                         pc |-> old.flash_start
                                   + old.header.init_function_offset,
                         r0 |-> old.flash_start + old.header.protected_size,
                         r1 |-> old.mem_start,
                         r2 |-> old.mem_len,
                         r3 |-> old.original_app_break] >>
               /\ new.state = "Yielded"
               /\ new.restart_count = old.restart_count + 1
      ]_vars

\* A restart that had something to undo: the fault found a queued task,
\* every grant entered and both breaks moved.
C6_Witness ==
    \E p \in Loaded :
        /\ last.op = "fault_state" /\ last.p = p /\ last.ret.ok
        /\ last.arg.tasks_len > 0
        /\ last.arg.entered = Grants
        /\ last.arg.moved = <<TRUE, TRUE>>
        /\ processes[p].restart_count = 1
        /\ processes[p].state = "Yielded"

----------------------------------------------------------------------------
(* The work counter and the task queues, checked under SpecWork.           *)

\* The to-do items the comment on Kernel::work counts: outstanding
\* callbacks and processes in the Running state.
ToDoItems(procs) ==
    SumOver([p \in Procs |->
                IF procs[p].is_some
                THEN Len(procs[p].tasks)
                        + (IF procs[p].state = "Running" THEN 1 ELSE 0)
                ELSE 0], Procs)

\* C3: between kernel operations the global work counter equals the sum
\* over all processes of the number of queued tasks, plus one for each
\* process in state Running.
C3_WorkCounterInvariant ==
    ~panicked => work = ToDoItems(processes)

\* C4: schedule and schedule_ipc change the work counter iff they enqueue
\* (then by +1); push_function_call adds exactly 1; dequeue_task subtracts
\* exactly 1 iff it returns a task; yield_state subtracts exactly 1 iff the
\* process was Running.
C4_WorkUpdateRule ==
    [][\A p \in Loaded : last'.p = p =>
         LET enqueued == processes'[p].tasks # processes[p].tasks
         IN /\ last'.op \in {"schedule", "schedule_ipc"} =>
                  work' = work + (IF enqueued THEN 1 ELSE 0)
            \* a delivered function call: dequeue_task, then
            \* push_function_call
            /\ last'.op = "push_function_call" => work' = (work - 1) + 1
            \* a delivered IPC task: dequeue_task alone
            /\ last'.op = "ipc" => work' = work - 1
            \* dequeue_task on an empty queue
            /\ last'.op = "dequeue_task" => work' = work
            /\ last'.op = "yield" =>
                  work' = work - (IF processes[p].state = "Running"
                                  THEN 1 ELSE 0)
      ]_vars

\* C8: a task queue never holds more than its capacity; schedule and
\* schedule_ipc on a full queue leave its contents unchanged, add exactly
\* one to dropped_callback_count, and schedule returns false.
C8_TaskQueueBound ==
    /\ [](\A p \in Loaded : Len(processes[p].tasks) <= callback_len)
    /\ [][\A p \in Loaded :
            (/\ last'.op \in {"schedule", "schedule_ipc"} /\ last'.p = p
             /\ processes[p].state # "Fault"
             /\ Len(processes[p].tasks) = callback_len) =>
               /\ processes'[p].tasks = processes[p].tasks
               /\ processes'[p].dropped_callback_count
                     = processes[p].dropped_callback_count + 1
               /\ last'.op = "schedule" => ~last'.ret.ok
         ]_vars

\* A schedule has just been refused by a full queue and counted as a drop.
C8_Witness ==
    \E p \in Loaded :
        /\ last.op = "schedule" /\ last.p = p /\ ~last.ret.ok
        /\ processes[p].state # "Fault"
        /\ Len(processes[p].tasks) = callback_len
        /\ processes[p].dropped_callback_count = 1

----------------------------------------------------------------------------
(* Scheduling for a faulted process, checked under SpecFaulted.            *)

\* C9: no task is enqueued to a process in state Fault: schedule on it
\* returns false, and schedule and schedule_ipc both leave its queue
\* unchanged and increment dropped_callback_count.
C9_NoEnqueueToFault ==
    [][\A p \in Loaded :
         (/\ processes[p].state = "Fault"
          /\ last'.op \in {"schedule", "schedule_ipc"} /\ last'.p = p) =>
            /\ processes'[p].tasks = processes[p].tasks
            /\ processes'[p].dropped_callback_count
                  = processes[p].dropped_callback_count + 1
            /\ last'.op = "schedule" => ~last'.ret.ok
      ]_vars

----------------------------------------------------------------------------
(* SpecLoop: kernel_loop and do_process.  sched.pc is the place the        *)
(* kernel is at, sched.i the slot the sweep is visiting, sched.pending     *)
(* whether the chip has a pending interrupt.                               *)

At(pc) == ~panicked /\ sched.pc = pc

Goto(pc) == [sched EXCEPT !.pc = pc]

\* The IPC tasks waiting in a process's queue.
QueuedIpc(proc) ==
    Cardinality({ k \in 1..Len(proc.tasks) : proc.tasks[k].kind = "IPC" })

\* The callback a process has subscribed with the IPC driver.
IPCCallbacks == { Callback(r.to, 0, 3968) : r \in IPCRoutes }

\* The board calls kernel_loop.
KernelLoopEnter ==
    /\ At("boot")
    /\ sched' = Goto("service")
    /\ UNCHANGED <<processes, work, last, panicked>>

\* Hardware raises an interrupt; a sleeping chip wakes up.
Interrupt ==
    /\ ~panicked /\ ~sched.pending
    /\ sched' = [sched EXCEPT !.pending = TRUE,
                    !.pc = IF @ = "sleep" THEN "service" ELSE @]
    /\ last' = Op("interrupt", 0, 0, Unit)
    /\ UNCHANGED <<processes, work, panicked>>

\* chip.service_pending_interrupts(): the handlers run, and a driver may
\* schedule a callback from one.
ServicePendingInterrupts ==
    /\ At("service")
    /\ sched' = [sched EXCEPT !.pc = "sweep", !.i = 0, !.pending = FALSE]
    /\ IF sched.pending
       THEN \E cb \in Callbacks : ScheduleOn(cb, 1, 2, 3)
       ELSE /\ last' = Op("service", 0, 0, Unit)
            /\ UNCHANGED <<processes, work, panicked>>

\* The head of the for loop over the process slots.
Sweep ==
    /\ At("sweep")
    /\ sched' = IF sched.i >= NumProcs THEN Goto("atomic")
                ELSE IF processes[sched.i].is_some THEN Goto("do_process")
                ELSE Goto("visited")
    /\ UNCHANGED <<processes, work, last, panicked>>

\* A sweep that stays on the slot it has just visited.
Visited_same_slot ==
    /\ At("visited")
    /\ sched' = IF sched.pending THEN Goto("atomic")
                ELSE [sched EXCEPT !.pc = "sweep"]
    /\ UNCHANGED <<processes, work, last, panicked>>

\* After a slot: leave the sweep if an interrupt is pending.
Visited ==
    /\ At("visited")
    /\ sched' = IF sched.pending THEN Goto("atomic")
                ELSE [sched EXCEPT !.pc = "sweep", !.i = @ + 1]
    /\ UNCHANGED <<processes, work, last, panicked>>

\* The head of do_process's loop breaks on a pending interrupt or when the
\* quantum has run out, which it may have at any iteration.
DoProcessBreak ==
    /\ At("do_process")
    /\ sched' = Goto("visited")
    /\ UNCHANGED <<processes, work, last, panicked>>

\* do_process on a Yielded process: no task ends the visit; a function
\* call is pushed; an IPC task goes to the IPC driver, which schedules the
\* callback the process has registered, if any.  A process in Fault is a
\* kernel panic.
DoProcessYielded ==
    /\ At("do_process") /\ ~sched.pending
    /\ processes[sched.i].state # "Running"
    /\ IF processes[sched.i].state = "Fault"
       THEN /\ panicked' = TRUE
            /\ last' = Op("panic", sched.i, 0, Unit)
            /\ UNCHANGED <<processes, work, sched>>
       ELSE
       LET p == sched.i
           d == dequeue_task(processes[p], work)
       IN /\ IF ~d.ret.is_some
             THEN /\ UNCHANGED <<processes, work>>
                  /\ last' = Op("dequeue_task", p, 0, None)
                  /\ sched' = Goto("visited")
             ELSE IF d.ret.kind = "FunctionCall"
             THEN LET r == push_function_call(d.proc, d.work, d.ret)
                  IN /\ processes' = [processes EXCEPT ![p] = r.proc]
                     /\ work' = r.work
                     /\ last' = Op("push_function_call", p, d.ret, r.frame)
                     /\ UNCHANGED sched
             ELSE \E cb \in IPCCallbacks : \E registered \in BOOLEAN :
                     LET r == IF registered /\ cb.app_id = p
                              THEN schedule(d.proc, d.work,
                                      FunctionCall(cb.fn_ptr, d.ret.from, 0,
                                                   0, cb.appdata))
                              ELSE [proc |-> d.proc, work |-> d.work]
                     IN /\ processes' = [processes EXCEPT ![p] = r.proc]
                        /\ work' = r.work
                        /\ last' = Op("ipc", p, d.ret, Unit)
                        /\ UNCHANGED sched
          /\ UNCHANGED panicked

\* A Running process runs until it makes the YIELD system call.
DoProcessYield ==
    /\ At("do_process") /\ ~sched.pending
    /\ \E pc \in UserPCs : \E psr \in UserPSRs :
          YieldSyscallCall(sched.i, pc, psr)
    /\ UNCHANGED sched

\* A Running process runs until it makes a COMMAND system call; the driver
\* may schedule a callback or an IPC task before it returns.  The process
\* keeps running.
DoProcessCommand ==
    /\ At("do_process") /\ ~sched.pending
    /\ processes[sched.i].state = "Running"
    /\ \/ \E cb \in Callbacks : ScheduleOn(cb, 1, 2, 3)
       \/ \E r \in IPCRoutes :
             /\ r.from = sched.i
             /\ QueuedIpc(processes[r.to]) < MaxQueuedIpc
             /\ ScheduleIpcOn(r.to, r.from, r.cb_type)
    /\ UNCHANGED sched

\* A Running process returns with reason Fault.
DoProcessFault ==
    /\ At("do_process") /\ ~sched.pending
    /\ ProcessFaultCall(sched.i)
    /\ UNCHANGED sched

\* A Running process returns with reason Other: the visit ends.
DoProcessOther ==
    /\ At("do_process") /\ ~sched.pending
    /\ processes[sched.i].state = "Running"
    /\ sched' = Goto("visited")
    /\ last' = Op("other", sched.i, 0, Unit)
    /\ UNCHANGED <<processes, work, panicked>>

\* chip.atomic: with interrupts held off, sleep if none is pending and
\* there is no work; otherwise go round the loop again.
AtomicSleep ==
    /\ At("atomic")
    /\ sched' = IF ~sched.pending /\ processes_blocked(work)
                THEN Goto("sleep") ELSE Goto("service")
    /\ UNCHANGED <<processes, work, last, panicked>>

InitLoop == Boot(BoardsTwo)

NextLoop ==
    \/ KernelLoopEnter
    \/ Interrupt
    \/ ServicePendingInterrupts
    \/ Sweep
    \/ Visited
    \/ DoProcessBreak
    \/ DoProcessYielded
    \/ DoProcessYield
    \/ DoProcessCommand
    \/ DoProcessFault
    \/ DoProcessOther
    \/ AtomicSleep

SpecLoop == InitLoop /\ [][NextLoop]_vars

\* C5: chip.sleep() is entered only when no interrupt is pending and no
\* process has work: no process is Running, every task queue is empty and
\* the work counter is zero.
C5_SleepSafety ==
    sched.pc = "sleep" =>
        /\ ~sched.pending
        /\ work = 0
        /\ \A p \in Loaded :
              /\ processes[p].state # "Running"
              /\ processes[p].tasks = << >>

\* The chip sleeps after every process has run its init function and
\* yielded.
C5_Witness ==
    /\ sched.pc = "sleep"
    /\ \A p \in Loaded :
          /\ processes[p].state = "Yielded"
          /\ processes[p].yield_pc \in UserPCs
          /\ processes[p].tasks = << >>

----------------------------------------------------------------------------
(* Error classification of the break calls, checked under Spec.            *)

\* C11: every brk or sbrk whose target lies above kernel_memory_break
\* fails with OutOfMemory, targets at or beyond mem_end included;
\* AddressOutOfBounds is returned only for targets below mem_start.
C11_BreakErrorClass ==
    [][\A p \in Loaded :
         (last'.op \in {"brk", "sbrk"} /\ last'.p = p) =>
            LET old == processes[p]
                target == IF last'.op = "brk" THEN last'.arg
                          ELSE offset(old.app_break, last'.arg)
            IN /\ target > old.kernel_memory_break =>
                     (~last'.ret.ok /\ last'.ret.err = "OutOfMemory")
               /\ (~last'.ret.ok /\ last'.ret.err = "AddressOutOfBounds") =>
                     target < mem_start(old)
      ]_vars

----------------------------------------------------------------------------
(* SpecAlloc: one process, the grant region carved in pieces of different  *)
(* sizes, with the heap moving underneath.                                 *)

\* size_of::<T>() of the values drivers allocate.
AllocatorSizes == { 0, 64, 256 }

InitAlloc == Boot(BoardsOne)

NextAlloc ==
    \/ \E p \in Procs : \E size \in AllocatorSizes : AllocatorAlloc(p, size)
    \/ \E p \in Procs : \E g \in Grants : GrantEnter(p, g)
    \/ \E p \in Loaded : \E nb \in BrkTargets(processes[p]) : Brk(p, nb)
    \/ \E p \in Loaded : DeliverTask(p)
    \/ \E p \in Loaded : ProcessFault(p)

SpecAlloc == InitAlloc /\ [][NextAlloc]_vars

\* Two byte ranges have no byte in common.
Disjoint(a, b) == a.ptr + a.len <= b.ptr \/ b.ptr + b.len <= a.ptr

\* C12: between two restarts the ranges successful allocs of size > 0
\* return are pairwise disjoint, each exactly size bytes long, inside
\* [app_break, mem_end) and below the create-time kernel structures; alloc
\* succeeds exactly when kernel_memory_break - size >= app_break, and a
\* failed alloc changes nothing.
C12_AllocDisjoint ==
    /\ [](\A p \in Loaded :
            LET proc == processes[p]
                a == proc.allocated
            IN /\ \A i \in DOMAIN a :
                    /\ a[i].len > 0
                    /\ proc.app_break <= a[i].ptr
                    /\ a[i].ptr + a[i].len <= proc.original_kernel_memory_break
                    /\ a[i].ptr + a[i].len <= mem_end(proc)
               /\ \A i, j \in DOMAIN a : i # j => Disjoint(a[i], a[j]))
    /\ [][\A p \in Loaded :
            (last'.op = "alloc" /\ last'.p = p) =>
               LET old == processes[p]
                   new == processes'[p]
                   size == last'.arg
               IN /\ last'.ret.ok <=>
                        old.kernel_memory_break - size >= old.app_break
                  /\ last'.ret.ok =>
                        /\ last'.ret.len = size
                        /\ last'.ret.val = old.kernel_memory_break - size
                        /\ new.kernel_memory_break = last'.ret.val
                  /\ ~last'.ret.ok => new = old
         ]_vars

\* Three ranges of two sizes are out, and an alloc that no longer fits has
\* just failed.
C12_Witness ==
    \E p \in Loaded :
        /\ last.op = "alloc" /\ last.p = p /\ ~last.ret.ok
        /\ Len(processes[p].allocated) >= 3
        /\ \E i, j \in DOMAIN processes[p].allocated :
              processes[p].allocated[i].len # processes[p].allocated[j].len

----------------------------------------------------------------------------
(* Grants, checked under Spec.                                             *)

\* C13: a grant-table slot is null until the first successful enter for
\* its (process, grant kind), which allocates the payload once and stores
\* the pointer in that slot only; a later enter returns the same pointer
\* and changes neither the slot nor kernel_memory_break; a non-null slot
\* becomes null again only by a restart of the process.
C13_LazyStableGrants ==
    [][\A p \in Loaded : \A g \in Grants :
         LET old == processes[p]
             new == processes'[p]
             first == /\ last'.op = "enter" /\ last'.p = p /\ last'.arg = g
                      /\ last'.ret.ok
                      /\ old.grant_ptrs[g] = NULL
         IN /\ new.grant_ptrs[g] # old.grant_ptrs[g] =>
                  \/ first
                  \/ /\ last'.op = "fault_state" /\ last'.p = p
                     /\ new.restart_count = old.restart_count + 1
                     /\ new.grant_ptrs[g] = NULL
            /\ first =>
                  /\ new.grant_ptrs[g] = last'.ret.val
                  /\ new.grant_ptrs[g] # NULL
                  /\ new.kernel_memory_break
                        = old.kernel_memory_break - grant_size(g)
                  /\ new.grant_ptrs[g] = new.kernel_memory_break
                  /\ Len(new.allocated) = Len(old.allocated) + 1
                  /\ \A h \in Grants \ {g} :
                        new.grant_ptrs[h] = old.grant_ptrs[h]
            /\ (/\ last'.op = "enter" /\ last'.p = p /\ last'.arg = g
                /\ old.grant_ptrs[g] # NULL) =>
                  /\ last'.ret.ok
                  /\ last'.ret.val = old.grant_ptrs[g]
                  /\ new = old
      ]_vars

\* After a restart, a grant entered again is entered once more when other
\* grant memory has been allocated below it: the enter returns the pointer
\* in the slot, which is above the kernel memory break.
C13_Witness ==
    \E p \in Loaded :
        /\ processes[p].restart_count > 0
        /\ last.op = "enter" /\ last.p = p /\ last.ret.ok
        /\ last.ret.val = processes[p].grant_ptrs[last.arg]
        /\ processes[p].kernel_memory_break < last.ret.val
        /\ Len(processes[p].allocated) >= 2

----------------------------------------------------------------------------
(* SpecGrant: drivers entering and enumerating grants.  A closure passed   *)
(* to enter is live from the step that calls it to the step it returns.    *)

\* The indices a driver can hold in an AppId.
AppIds == 0..(NumProcs + 1)

\* Grant::grant: the AppliedGrant for a process, if the grant is allocated.
grant(procs, grant_num, app_id) ==
    LET found == process_map_or(procs, app_id)
    IN IF found = "panic" THEN Err("panic")
       ELSE IF found = "default" THEN None
       ELSE IF grant_for(procs[app_id], grant_num) = NULL THEN None
       ELSE Some(grant_for(procs[app_id], grant_num), grant_size(grant_num))

\* Iter::next from self.index: the slot it returns an AppliedGrant for and
\* the index it leaves, or no slot.
RECURSIVE Iter_next(_, _, _)
Iter_next(procs, grant_num, index) ==
    IF index < NumProcs
    THEN IF grant(procs, grant_num, index).ok
         THEN [is_some |-> TRUE, appid |-> index, index |-> index + 1]
         ELSE Iter_next(procs, grant_num, index + 1)
    ELSE [is_some |-> FALSE, appid |-> 0, index |-> index]

\* Grant::iter consumed to its end: the slots it yields, in order.
RECURSIVE IterFrom(_, _, _)
IterFrom(procs, grant_num, index) ==
    LET n == Iter_next(procs, grant_num, index)
    IN IF n.is_some
       THEN << n.appid >> \o IterFrom(procs, grant_num, n.index)
       ELSE << >>

iter(procs, grant_num) == IterFrom(procs, grant_num, 0)

\* each that calls fun for every process, entered or not.
RECURSIVE EachFrom_unfiltered(_, _, _)
EachFrom_unfiltered(procs, grant_num, i) ==
    IF i >= NumProcs THEN << >>
    ELSE (IF procs[i].is_some THEN << i >> ELSE << >>)
            \o EachFrom_unfiltered(procs, grant_num, i + 1)

\* Grant::each over process_each_enumerate: the slots fun is called for,
\* in order.
RECURSIVE EachFrom(_, _, _)
EachFrom(procs, grant_num, i) ==
    IF i >= NumProcs THEN << >>
    ELSE (IF procs[i].is_some /\ grant_for(procs[i], grant_num) # NULL
          THEN << i >> ELSE << >>) \o EachFrom(procs, grant_num, i + 1)

each(procs, grant_num) == EachFrom(procs, grant_num, 0)

\* What an enumeration returned.
Visits(seq) == [ok |-> TRUE, val |-> seq, err |-> "", len |-> Len(seq)]

Inside == sched.live # << >>

\* A driver calls Grant::enter, from its top level or from inside a
\* closure; when enter succeeds its closure starts to run.
EnterBegin(p, grant_num) ==
    /\ Len(sched.live) < MaxNesting
    /\ GrantEnterCall(p, grant_num)
    /\ sched' = IF last'.ret.ok
                THEN [sched EXCEPT
                        !.live = Append(@, [p |-> p, g |-> grant_num])]
                ELSE sched

\* The innermost closure returns.
EnterReturn ==
    /\ ~panicked /\ Inside
    /\ sched' = [sched EXCEPT !.live = SubSeq(@, 1, Len(@) - 1)]
    /\ last' = Op("return", sched.live[Len(sched.live)].p,
                  sched.live[Len(sched.live)].g, Unit)
    /\ UNCHANGED <<processes, work, panicked>>

\* The innermost closure allocates with the Allocator enter gave it.
ClosureAlloc(size) ==
    /\ Inside
    /\ AllocatorAlloc(sched.live[Len(sched.live)].p, size)

\* A driver calls Grant::each; fun returns for every process visited.
GrantEach(grant_num) ==
    /\ ~panicked
    /\ last' = Op("each", 0, grant_num, Visits(each(processes, grant_num)))
    /\ UNCHANGED <<processes, work, sched, panicked>>

\* A driver runs Grant::iter to its end.
GrantIter(grant_num) ==
    /\ ~panicked
    /\ last' = Op("iter", 0, grant_num, Visits(iter(processes, grant_num)))
    /\ UNCHANGED <<processes, work, sched, panicked>>

\* One application and an empty slot, or two applications.
BoardsGrant ==
    { Board(<<AppHeader(1024)>>, "Restart"),
      Board(<<AppHeader(1024), AppHeader(1024)>>, "Restart") }

InitGrant == Boot(BoardsGrant)

NextGrant ==
    \/ \E p \in AppIds : \E g \in Grants : EnterBegin(p, g)
    \/ EnterReturn
    \/ \E size \in AllocSizes \ {0} : ClosureAlloc(size)
    \/ \E g \in Grants : GrantEach(g)
    \/ \E g \in Grants : GrantIter(g)
    \/ \E p \in Loaded :
          ~Inside /\ Brk(p, processes[p].kernel_memory_break)
    \/ \E p \in Loaded : ~Inside /\ DeliverTask(p)
    \/ \E p \in Loaded : ~Inside /\ ProcessFault(p)

SpecGrant == InitGrant /\ [][NextGrant]_vars

----------------------------------------------------------------------------
(* SpecEach: grants entered, enumerated and lost in restarts.              *)

InitEach == Boot(BoardsGrant)

NextEach ==
    \/ \E p \in Procs : \E g \in Grants : GrantEnter(p, g)
    \/ \E g \in Grants : GrantEach(g)
    \/ \E g \in Grants : GrantIter(g)
    \/ \E p \in Loaded : DeliverTask(p)
    \/ \E p \in Loaded : ProcessFault(p)

SpecEach == InitEach /\ [][NextEach]_vars

\* The slots of the processes that have grant kind g allocated.
Entered(g) ==
    { p \in Loaded : processes[p].grant_ptrs[g] # NULL }

\* C16: iter() and each(fn) visit exactly the occupied process slots whose
\* grant-table slot for the grant kind is non-null, each once and in
\* increasing slot order, and allocate nothing; a restarted process is not
\* enumerated until it is entered again.
C16_GrantEnumeration ==
    /\ [](last.op \in {"each", "iter"} =>
            LET visited == last.ret.val
            IN /\ { visited[k] : k \in DOMAIN visited } = Entered(last.arg)
               /\ \A j, k \in DOMAIN visited : j < k => visited[j] < visited[k])
    /\ [][last'.op \in {"each", "iter"} => processes' = processes]_vars

\* An enumeration has just visited the second process and not the first,
\* which had entered the grant too and lost it in a restart.
C16_Witness ==
    /\ last.op \in {"each", "iter"}
    /\ last.ret.val = << 1 >>
    /\ processes[0].is_some
    /\ processes[0].restart_count > 0
    /\ \E g \in Grants : processes[0].grant_ptrs[g] # NULL

----------------------------------------------------------------------------
(* Entering grants, checked under SpecGrant.                               *)

\* C14: enter returns NoSuchApp without running fn when no process
\* occupies slot app_id, and OutOfMemory without running fn when the lazy
\* allocation does not fit between app_break and kernel_memory_break; in
\* both cases no grant-table slot and no break pointer of any process
\* changes.
C14_EnterErrors ==
    [][last'.op = "enter" =>
         LET p == last'.p
             g == last'.arg
             absent == p \notin Procs \/ ~processes[p].is_some
             unfit == /\ ~absent
                      /\ processes[p].grant_ptrs[g] = NULL
                      /\ processes[p].kernel_memory_break - grant_size(g)
                            < processes[p].app_break
         IN /\ absent =>
                  /\ last'.ret = Err("NoSuchApp")
                  /\ ~panicked'
                  /\ processes' = processes
                  /\ sched'.live = sched.live
            /\ unfit =>
                  /\ last'.ret = Err("OutOfMemory")
                  /\ processes' = processes
                  /\ sched'.live = sched.live
      ]_vars

\* C15: no two live enter closures hold the payload of the same
\* (process, grant kind): an enter for a pair whose closure is still
\* running does not start a second closure for it.
C15_GrantExclusivity ==
    \A i, j \in DOMAIN sched.live :
        i # j => sched.live[i] # sched.live[j]

----------------------------------------------------------------------------
(* SpecMpu: the table of IPC MPU regions of a process.                     *)

\* The requests add_mpu_region is called with. Well formed: a null base,
\* one multiple of 32 asked for with two sizes, and odd multiples of 16.
\* Malformed: a size below 16, a size that is not a power of two, and a
\* base that is not a multiple of the size.
MpuRequests ==
    { [base |-> NULL, size |-> 16],
      [base |-> 32, size |-> 16], [base |-> 32, size |-> 32],
      [base |-> 16, size |-> 16], [base |-> 48, size |-> 16],
      [base |-> 80, size |-> 16], [base |-> 112, size |-> 16],
      [base |-> 32, size |-> 8], [base |-> 32, size |-> 24],
      [base |-> 48, size |-> 32] }

\* The buffers a process has shared with the kernel: inside its RAM, at an
\* odd multiple of 16.
AppSlices(proc) ==
    { [ptr |-> offset(mem_start(proc), 272), len |-> 16],
      [ptr |-> offset(mem_start(proc), 272), len |-> 32] }

\* add_mpu_region on the first process.
AddMpuRegion(base, size) ==
    /\ ~panicked
    /\ processes[0].is_some
    /\ LET r == add_mpu_region(processes[0], base, size)
       IN /\ processes' = [processes EXCEPT ![0] = r.proc]
          /\ last' = Op("add_mpu_region", 0,
                        [base |-> base, size |-> size], Bool(r.ret))
    /\ UNCHANGED <<work, sched, panicked>>

\* AppSlice::expose_to: a slice of process owner exposed to process appid.
ExposeTo(owner, appid, slice) ==
    /\ ~panicked
    /\ processes[owner].is_some
    /\ slice \in AppSlices(processes[owner])
    /\ LET arg == [base |-> slice.ptr, size |-> slice.len]
       IN IF appid # owner
          THEN LET found == process_map_or(processes, appid)
               IN IF found = "closure"
                  THEN LET r == add_mpu_region(processes[appid],
                                               slice.ptr, slice.len)
                       IN /\ processes' = [processes EXCEPT
                                             ![appid] = r.proc]
                          /\ last' = Op("expose_to", appid, arg,
                                        Bool(r.ret))
                          /\ UNCHANGED panicked
                  ELSE /\ processes' = processes
                       /\ panicked' = (found = "panic")
                       /\ last' = Op("expose_to", appid, arg,
                                     IF found = "panic" THEN Err("panic")
                                     ELSE Bool(FALSE))
          ELSE /\ last' = Op("expose_to", appid, arg, Bool(FALSE))
               /\ UNCHANGED <<processes, panicked>>
    /\ UNCHANGED <<work, sched>>

\* Two applications in flash.
BoardsMpu == { Board(<<AppHeader(1024), AppHeader(1024)>>, "Restart") }

InitMpu == Boot(BoardsMpu)

NextMpu ==
    \/ \E req \in MpuRequests : AddMpuRegion(req.base, req.size)
    \/ \E owner \in Loaded : \E appid \in AppIds :
           \E slice \in AppSlices(processes[owner]) :
               ExposeTo(owner, appid, slice)

SpecMpu == InitMpu /\ [][NextMpu]_vars

\* A request add_mpu_region accepts: size >= 16, a power of two, and base a
\* multiple of size.
WellFormed(base, size) ==
    size >= 16 /\ count_ones(size) = 1 /\ base % size = 0

\* The occupied entries of a table.
NonNull(regions) == { i \in DOMAIN regions : regions[i].base # NULL }

\* C17: every non-null entry of the IPC MPU table of every process has a
\* size >= 16 that is a power of two and a base that is a multiple of the
\* size; a call of add_mpu_region with size < 16, a size that is not a
\* power of two or a base that is not a multiple of size returns false and
\* leaves the table unchanged.
C17_MpuValidity ==
    /\ [](\A p \in Loaded : \A i \in NonNull(processes[p].mpu_regions) :
            LET region == processes[p].mpu_regions[i]
            IN /\ as_num(region.size) >= 16
               /\ count_ones(as_num(region.size)) = 1
               /\ region.base % as_num(region.size) = 0)
    /\ [][(last'.op = "add_mpu_region"
             /\ ~WellFormed(last'.arg.base, last'.arg.size))
          => /\ ~last'.ret.ok
             /\ processes' = processes]_vars

\* A call with a power-of-two size and a base that is not a multiple of it
\* was refused on a table whose five entries are occupied.
C17_Witness ==
    /\ last.op = "add_mpu_region"
    /\ last.arg.size >= 16 /\ count_ones(last.arg.size) = 1
    /\ last.arg.base % last.arg.size # 0
    /\ ~last.ret.ok
    /\ NonNull(processes[0].mpu_regions) = 1..MpuRegionCount

\* C18: a well-formed add_mpu_region whose base is the base of an entry
\* returns true, leaves every other entry alone and leaves that entry with
\* the larger of its size and the new size; one with a new base writes
\* (base, size) to the first empty entry and returns true, or returns false
\* and leaves the table unchanged when no entry is empty; no two non-null
\* entries of a table hold the same base.
C18_RegionReuse ==
    /\ [](\A p \in Loaded :
            \A i, j \in NonNull(processes[p].mpu_regions) :
                i # j => processes[p].mpu_regions[i].base
                           # processes[p].mpu_regions[j].base)
    /\ [][(last'.op = "add_mpu_region"
             /\ WellFormed(last'.arg.base, last'.arg.size))
          => LET base == last'.arg.base
                 size == last'.arg.size
                 old == processes[last'.p].mpu_regions
                 new == processes'[last'.p].mpu_regions
                 same == { i \in NonNull(old) : old[i].base = base }
                 empty == (DOMAIN old) \ NonNull(old)
             IN IF same # {}
                THEN /\ last'.ret.ok
                     /\ \E i \in same :
                          new = [old EXCEPT ![i].size =
                                   PowerOfTwo_floor(Max(as_num(old[i].size),
                                                        size))]
                ELSE IF empty # {}
                THEN /\ last'.ret.ok
                     /\ \E i \in empty :
                          /\ \A j \in empty : i <= j
                          /\ new = [old EXCEPT
                                      ![i] = [base |-> base,
                                              size |-> PowerOfTwo_floor(size)]]
                ELSE /\ ~last'.ret.ok
                     /\ new = old]_vars

\* A well-formed request with the base of an entry that holds a larger size
\* was accepted on a table whose five entries are occupied.
C18_Witness ==
    /\ last.op = "add_mpu_region"
    /\ WellFormed(last.arg.base, last.arg.size)
    /\ last.ret.ok
    /\ NonNull(processes[0].mpu_regions) = 1..MpuRegionCount
    /\ \E i \in 1..MpuRegionCount :
          /\ processes[0].mpu_regions[i].base = last.arg.base
          /\ as_num(processes[0].mpu_regions[i].size) > last.arg.size

----------------------------------------------------------------------------
(* SpecAllow: the ALLOW system call and the bounds check it relies on.     *)

\* Buffer addresses a process passes: null, around the start and the end of
\* its RAM.
BufferAddrs(proc) ==
    { NULL, offset(mem_start(proc), -16), mem_start(proc),
      offset(mem_start(proc), 16), offset(mem_end(proc), -16),
      mem_end(proc), offset(mem_end(proc), 1) }

\* Buffer lengths a process passes: small, the size of its RAM and beyond,
\* and lengths in the upper half of the machine word.
BufferLens(proc) ==
    { 0, 16, proc.mem_len, proc.mem_len + 16, PtrMod \div 2, PtrMod - 16 }

\* The drivers of the platform, and the numbers processes ask for.
Drivers == { 0 }
DriverNums == { 0, 1 }
AllowNums == { 0 }
DriverResults == { "SUCCESS", "FAIL", "EINVAL" }

\* in_exposed_bounds of process p.
InExposedBounds(p, buf_start_addr, size) ==
    /\ ~panicked
    /\ processes[p].is_some
    /\ last' = Op("in_exposed_bounds", p,
                  [base |-> buf_start_addr, size |-> size],
                  Bool(in_exposed_bounds(processes[p], buf_start_addr, size)))
    /\ UNCHANGED <<processes, work, sched, panicked>>

\* do_process on a Running process that made the ALLOW system call: the
\* return code goes to the word at its stack pointer, where r0 was passed.
SyscallAllow(p, r0, r1, r2, r3, driver_res) ==
    /\ ~panicked
    /\ processes[p].is_some /\ processes[p].state = "Running"
    /\ LET r == syscall_allow(processes[p], p, r0 \in Drivers, r1, r2, r3,
                              driver_res)
       IN last' = Op("allow", p,
                     [r0 |-> r0, r1 |-> r1, r2 |-> r2, r3 |-> r3],
                     [w0 |-> ReturnCode_into(r.res), call |-> r.call])
    /\ UNCHANGED <<processes, work, sched, panicked>>

InitAllow == Boot(BoardsOne)

NextAllow ==
    \/ \E p \in Loaded : DeliverTask(p)
    \/ \E p \in Loaded : \E base \in BufferAddrs(processes[p]) :
           \E size \in BufferLens(processes[p]) :
               InExposedBounds(p, base, size)
    \/ \E p \in Loaded : \E r0 \in DriverNums : \E r1 \in AllowNums :
           \E r2 \in BufferAddrs(processes[p]) :
               \E r3 \in BufferLens(processes[p]) :
                   \E driver_res \in DriverResults :
                       SyscallAllow(p, r0, r1, r2, r3, driver_res)

SpecAllow == InitAllow /\ [][NextAllow]_vars

\* C19: in_exposed_bounds(base, size) is true exactly when the bytes from
\* base up to, not including, base + size all lie in the RAM of the process,
\* mem_start <= base and base + size <= mem_end with base + size the sum
\* of the two numbers, whatever the machine words base and size are.
C19_ExposedBounds ==
    last.op = "in_exposed_bounds" =>
        LET proc == processes[last.p]
            start == proc.mem_start
            end == proc.mem_start + proc.mem_len
        IN last.ret.ok <=>
              /\ start <= last.arg.base
              /\ last.arg.base + last.arg.size <= end

\* C20: an ALLOW that names an existing driver with a non-null address
\* calls the driver's allow, with the slice (addr, len) of the calling
\* process, only if in_exposed_bounds(addr, len) holds, and otherwise leaves
\* EINVAL in the w0 slot of the frame without calling allow; with a null
\* address it calls allow with no slice.
C20_AllowValidation ==
    (last.op = "allow" /\ last.arg.r0 \in Drivers) =>
        LET proc == processes[last.p]
            addr == last.arg.r2
            len == last.arg.r3
            call == last.ret.call
        IN IF addr = NULL
           THEN call = Invoked(last.p, last.arg.r1, NoSlice)
           ELSE IF in_exposed_bounds(proc, addr, len)
           THEN call = Invoked(last.p, last.arg.r1,
                               AppSlice_new(addr, len, last.p))
           ELSE /\ call = NotInvoked
                /\ last.ret.w0 = ReturnCode_into("EINVAL")

\* An ALLOW with the address one byte past the end of the RAM of the
\* process was refused with EINVAL.
C20_Witness ==
    /\ last.op = "allow" /\ last.arg.r0 \in Drivers
    /\ last.arg.r2 = offset(mem_end(processes[last.p]), 1)
    /\ last.ret.call = NotInvoked
    /\ last.ret.w0 = ReturnCode_into("EINVAL")

----------------------------------------------------------------------------
(* SpecSyscall: the system calls of one running process, as do_process     *)
(* dispatches them.                                                        *)

\* What user code passes in r2 and in r3 of SUBSCRIBE and COMMAND.
SyscallArgs == { NULL, 3840 }
AppData == { 48879 }

\* The words a system call leaves in `last`: the registers passed, the word
\* written to the w0 slot of the frame, and the driver method called.
Registers(r0, r1, r2, r3) == [r0 |-> r0, r1 |-> r1, r2 |-> r2, r3 |-> r3]
Dispatched(r) == [w0 |-> ReturnCode_into(r.res), call |-> r.call]

\* do_process on a Running process that made the SUBSCRIBE system call.
SyscallSubscribe(p, r0, r1, r2, r3, driver_res) ==
    /\ ~panicked
    /\ processes[p].is_some /\ processes[p].state = "Running"
    /\ last' = Op("subscribe", p, Registers(r0, r1, r2, r3),
                  Dispatched(syscall_subscribe(p, r0 \in Drivers, r1, r2, r3,
                                               driver_res)))
    /\ UNCHANGED <<processes, work, sched, panicked>>

\* do_process on a Running process that made the COMMAND system call; the
\* driver's command, when it is called, may schedule a callback it holds.
SyscallCommand(p, r0, r1, r2, r3, driver_res, schedules) ==
    /\ ~panicked
    /\ processes[p].is_some /\ processes[p].state = "Running"
    /\ LET r == syscall_command(p, r0 \in Drivers, r1, r2, r3, driver_res)
       IN /\ last' = Op("command", p, Registers(r0, r1, r2, r3),
                        Dispatched(r))
          /\ IF r.call.invoked /\ schedules
             THEN \E cb \in Callbacks :
                    LET s == schedule(processes[cb.app_id], work,
                                FunctionCall(cb.fn_ptr, r1, r2, r3,
                                             cb.appdata))
                    IN /\ processes[cb.app_id].is_some
                       /\ processes' = [processes EXCEPT
                                          ![cb.app_id] = s.proc]
                       /\ Dropped(processes') <= MaxDropped
                       /\ work' = s.work
             ELSE UNCHANGED <<processes, work>>
    /\ UNCHANGED <<sched, panicked>>

InitSyscall == Boot(BoardsOne)

NextSyscall ==
    \/ \E p \in Loaded : DeliverTask(p)
    \/ \E p \in Loaded : \E sp \in UserStackPointers(processes[p]) :
           SwitchToProcess(p, sp)
    \/ \E p \in Loaded : \E pc \in UserPCs : \E psr \in UserPSRs :
           YieldSyscall(p, pc, psr)
    \/ \E p \in Loaded : \E r0 \in DriverNums : \E r1 \in AllowNums :
           \E r2 \in SyscallArgs : \E r3 \in AppData :
               \E driver_res \in DriverResults :
                   SyscallSubscribe(p, r0, r1, r2, r3, driver_res)
    \/ \E p \in Loaded : \E r0 \in DriverNums : \E r1 \in AllowNums :
           \E r2 \in SyscallArgs : \E r3 \in AppData :
               \E driver_res \in DriverResults : \E schedules \in BOOLEAN :
                   SyscallCommand(p, r0, r1, r2, r3, driver_res, schedules)
    \/ \E p \in Loaded : \E r0 \in DriverNums : \E r1 \in AllowNums :
           \E r2 \in BufferAddrs(processes[p]) : \E r3 \in { 16 } :
               \E driver_res \in DriverResults :
                   SyscallAllow(p, r0, r1, r2, r3, driver_res)

SpecSyscall == InitSyscall /\ [][NextSyscall]_vars

\* C21: a SUBSCRIBE, COMMAND or ALLOW whose driver number has no driver
\* leaves ENODEVICE in the w0 slot of the frame and calls no driver method;
\* the process stays Running, and its queue, its break pointers and the
\* work counter are unchanged.
C21_UnknownDriver ==
    [][(last'.op \in {"subscribe", "command", "allow"}
          /\ last'.arg.r0 \notin Drivers)
       => /\ last'.ret.w0 = ReturnCode_into("ENODEVICE")
          /\ last'.ret.call = NotInvoked
          /\ processes'[last'.p].state = "Running"
          /\ processes' = processes
          /\ work' = work]_vars

\* Each of the three system calls was answered with ENODEVICE: here a
\* COMMAND, by a process with a callback waiting in its queue.
C21_Witness ==
    /\ last.op = "command"
    /\ last.arg.r0 \notin Drivers
    /\ last.ret.w0 = ReturnCode_into("ENODEVICE")
    /\ Len(processes[last.p].tasks) > 0

----------------------------------------------------------------------------
(* SpecCallback: callbacks scheduled for, and delivered to, the processes   *)
(* of a board with one or two applications.                                *)

\* The callbacks drivers hold: one for each process slot.
SlotCallbacks == { Callback(p, 48879, 3840) : p \in Procs }

InitCallback == Boot(BoardsGrant)

NextCallback ==
    \/ \E cb \in SlotCallbacks : CallbackSchedule(cb, 1, 2, 3)
    \/ \E p \in Loaded : DeliverTask(p)
    \/ \E p \in Loaded : \E pc \in UserPCs : \E psr \in UserPSRs :
           YieldSyscall(p, pc, psr)
    \/ \E p \in Loaded : ProcessFault(p)

SpecCallback == InitCallback /\ [][NextCallback]_vars

\* x | 1 for a word x.
LowBitSet(x) == 2 * (x \div 2) + 1

\* C23: Callback(app, userdata, fn_ptr).schedule(a, b, c) returns false and
\* changes nothing when the slot of app is empty, and when it returns true
\* it has put FunctionCall{r0 = a, r1 = b, r2 = c, r3 = userdata,
\* pc = fn_ptr} at the end of the queue of app; the delivery of a
\* FunctionCall to a Yielded process writes, 8 words below its stack
\* pointer, w0..w3 = r0..r3 of the call, PC = pc | 1, LR = the saved
\* return PC | 1 and the saved status word, moves the stack pointer there
\* and makes the process Running.
C23_CallbackDelivery ==
    [][/\ \A cb \in SlotCallbacks :
            CallbackSchedule(cb, 1, 2, 3) =>
               IF ~processes[cb.app_id].is_some
               THEN ~last'.ret.ok /\ processes' = processes /\ work' = work
               ELSE last'.ret.ok =>
                      processes'[cb.app_id].tasks
                         = Append(processes[cb.app_id].tasks,
                                  [is_some |-> TRUE, kind |-> "FunctionCall",
                                   pc |-> cb.fn_ptr, r0 |-> 1, r1 |-> 2,
                                   r2 |-> 3, r3 |-> cb.appdata])
       /\ last'.op = "push_function_call" =>
            LET old == processes[last'.p]
                new == processes'[last'.p]
                call == Head(old.tasks)
                frame == last'.ret
            IN /\ old.state = "Yielded"
               /\ new.state = "Running"
               /\ frame.stack_bottom
                    = old.current_stack_pointer - FrameWords * grant_ptr_size
               /\ new.current_stack_pointer = frame.stack_bottom
               /\ frame.w0 = call.r0 /\ frame.w1 = call.r1
               /\ frame.w2 = call.r2 /\ frame.w3 = call.r3
               /\ frame.pc = LowBitSet(call.pc)
               /\ frame.lr = LowBitSet(old.yield_pc)
               /\ frame.psr = old.psr
               /\ (old.restart_count = 0 /\ old.yield_pc \notin UserPCs)
                     => frame.psr = DefaultPsr
       ]_vars

\* A driver's callback was delivered to a process that had yielded.
C23_Witness ==
    /\ last.op = "push_function_call"
    /\ last.ret.pc = 3841 /\ last.ret.lr = 4609
    /\ last.ret.w0 = 1 /\ last.ret.w1 = 2 /\ last.ret.w2 = 3
    /\ last.ret.w3 = 48879
    /\ processes[last.p].state = "Running"

----------------------------------------------------------------------------
(* SpecState: the operations on a process, on two processes in whatever    *)
(* state they are in.                                                      *)

\* yield_state called on a process that is not running user code (the
\* YIELD arm of do_process is the call on a Running process).
YieldState(p) ==
    /\ ~panicked
    /\ processes[p].is_some /\ processes[p].state # "Running"
    /\ LET y == yield_state(processes[p], work)
       IN /\ processes' = [processes EXCEPT ![p] = y.proc]
          /\ work' = y.work
          /\ last' = Op("yield_state", p, 0, Unit)
    /\ UNCHANGED <<sched, panicked>>

\* The break a process asks for, and what is asked of its MPU table.
StateBrkTargets(proc) == { proc.original_app_break }
StateMpuRequests == { [base |-> 32, size |-> 16] }

InitState == Boot(BoardsTwo)

NextState ==
    \/ \E cb \in Callbacks : CallbackSchedule(cb, 1, 2, 3)
    \/ ScheduleIpc(0, 1, "Client")
    \/ \E p \in Loaded : DeliverTask(p)
    \/ \E p \in Loaded : \E pc \in UserPCs : \E psr \in UserPSRs :
           YieldSyscall(p, pc, psr)
    \/ \E p \in Loaded : YieldState(p)
    \/ \E p \in Loaded : ProcessFault(p)
    \/ \E nb \in StateBrkTargets(processes[0]) : Brk(0, nb)
    \/ Sbrk(0, 512)
    \/ GrantEnter(0, 0)
    \/ \E req \in StateMpuRequests : AddMpuRegion(req.base, req.size)

SpecState == InitState /\ [][NextState]_vars

\* C24: the state of a process changes only from Running to Yielded in
\* yield_state, from Yielded to Running in push_function_call of a
\* dequeued FunctionCall, and from any state in fault_state, which leaves
\* Fault under Panic and Yielded under Restart; schedule, schedule_ipc,
\* dequeue_task, sbrk, brk, alloc and add_mpu_region leave every state as
\* it is, and yield_state on a process that is not Running changes
\* neither its state nor the work counter.
C24_StateMachine ==
    [][/\ \A p \in Loaded :
            processes'[p].state # processes[p].state =>
               /\ last'.p = p
               /\ \/ /\ last'.op \in {"yield", "yield_state"}
                     /\ processes[p].state = "Running"
                     /\ processes'[p].state = "Yielded"
                  \/ /\ last'.op = "push_function_call"
                     /\ processes[p].state = "Yielded"
                     /\ processes'[p].state = "Running"
                     /\ last'.arg = Head(processes[p].tasks)
                     /\ last'.arg.kind = "FunctionCall"
                  \/ /\ last'.op = "fault_state"
                     /\ processes'[p].state =
                          IF processes[p].fault_response = "Panic"
                          THEN "Fault" ELSE "Yielded"
       /\ last'.op \in {"schedule", "schedule_ipc", "dequeue_task", "ipc",
                        "sbrk", "brk", "enter", "add_mpu_region"}
            => \A p \in Loaded : processes'[p].state = processes[p].state
       /\ (last'.op = "yield_state"
             /\ processes[last'.p].state # "Running")
            => processes' = processes /\ work' = work
       ]_vars

\* yield_state was called on a Yielded process with a task in its queue.
C24_Witness ==
    /\ last.op = "yield_state"
    /\ processes[last.p].state = "Yielded"
    /\ Len(processes[last.p].tasks) > 0
    /\ work > 0

----------------------------------------------------------------------------
(* SpecFifo: the order in which the scheduler delivers what drivers        *)
(* schedule.  Every scheduled callback carries its number in r0; sched     *)
(* records the numbers enqueued, delivered and flushed by a restart.       *)

SchedFifo ==
    [pc |-> "boot", i |-> 0, pending |-> FALSE, live |-> << >>,
     seq |-> 0, enqueued |-> << >>, delivered |-> << >>, flushed |-> {}]

\* A numbered task of process p.
Numbered(p, id) == [p |-> p, id |-> id]

\* The numbers of the scheduled callbacks waiting in a task queue.
QueuedIds(ring) ==
    { ring[k].r0 : k \in { j \in DOMAIN ring : ring[j].pc = 3840 } }

\* A driver schedules its next callback.
FifoSchedule(cb) ==
    /\ sched.seq < MaxTasks
    /\ CallbackScheduleCall(cb, sched.seq + 1, 2, 3)
    /\ sched' = [sched EXCEPT
            !.seq = @ + 1,
            !.enqueued = IF last'.ret.ok
                         THEN Append(@, Numbered(cb.app_id, sched.seq + 1))
                         ELSE @]

\* The scheduler visits a yielded process: dequeue_task, then
\* push_function_call of what it found.
FifoDeliver(p) ==
    /\ DeliverTaskCall(p)
    /\ sched' = [sched EXCEPT
            !.delivered = IF /\ last'.op = "push_function_call"
                             /\ last'.arg.pc = 3840
                          THEN Append(@, Numbered(p, last'.arg.r0))
                          ELSE @]

\* The scheduler visits a running process: user code runs and comes back
\* when its time slice ends, without a system call.
FifoRun(p) ==
    /\ ~panicked
    /\ processes[p].is_some /\ processes[p].state = "Running"
    /\ last' = Op("switch_to", p, 0, Unit)
    /\ UNCHANGED <<processes, work, sched, panicked>>

\* One visit of do_process to slot p.
FifoVisit(p) == FifoDeliver(p) \/ FifoRun(p)

FifoYield(p) ==
    \E pc \in UserPCs : \E psr \in UserPSRs : YieldSyscall(p, pc, psr)

\* A fault: under Restart the queue is emptied.
FifoFault(p) ==
    /\ ProcessFaultCall(p)
    /\ sched' = [sched EXCEPT
            !.flushed = @ \cup QueuedIds(processes[p].tasks)]

InitFifo ==
    \E board \in BoardsMpu :
        LET st == load_processes(board)
        IN /\ ~st.panic
           /\ processes = st.procs
           /\ work = st.work
           /\ panicked = FALSE
           /\ sched = SchedFifo
           /\ last = Op("boot", 0, 0, Unit)

NextFifo ==
    \/ \E p \in Loaded : FifoSchedule(Callback(p, 48879, 3840))
    \/ \E p \in Procs : FifoDeliver(p)
    \/ \E p \in Loaded : FifoRun(p)
    \/ \E p \in Loaded : FifoYield(p)
    \/ FifoFault(0)

\* kernel_loop visits every process slot in turn, for ever.
SpecFifo ==
    /\ InitFifo
    /\ [][NextFifo]_vars
    /\ \A p \in Procs : WF_vars(FifoVisit(p))

IdsEnqueued == { sched.enqueued[k].id : k \in DOMAIN sched.enqueued }
IdsDelivered == { sched.delivered[k].id : k \in DOMAIN sched.delivered }
WasEnqueued(t) == \E k \in DOMAIN sched.enqueued : sched.enqueued[k] = t
WasDelivered(t) == \E k \in DOMAIN sched.delivered : sched.delivered[k] = t

\* Delivered in the order enqueued, none twice, none overtaken.
FifoOrder ==
    /\ \A k \in DOMAIN sched.delivered : WasEnqueued(sched.delivered[k])
    /\ \A j, k \in DOMAIN sched.delivered :
           (j < k /\ sched.delivered[j].p = sched.delivered[k].p)
               => sched.delivered[j].id < sched.delivered[k].id
    /\ \A j \in DOMAIN sched.enqueued : \A k \in DOMAIN sched.delivered :
           (/\ sched.enqueued[j].p = sched.delivered[k].p
            /\ sched.enqueued[j].id < sched.delivered[k].id)
               => \/ WasDelivered(sched.enqueued[j])
                  \/ sched.enqueued[j].id \in sched.flushed

\* The process that callback id was enqueued for is not running user code.
OwnerNotRunning(id) ==
    \A k \in DOMAIN sched.enqueued :
        sched.enqueued[k].id = id
            => processes[sched.enqueued[k].p].state # "Running"

\* C25 as stated: tasks are dequeued in the order of their successful
\* enqueues, each at most once, and each exactly once when the process
\* does not restart first and the scheduler keeps visiting it.
C25_FifoExactlyOnce ==
    /\ [] FifoOrder
    /\ \A id \in 1 .. MaxTasks :
           (id \in IdsEnqueued)
               ~> (id \in IdsDelivered \/ id \in sched.flushed)

\* C25 amended: the same, for a task whose process keeps yielding; a task
\* queued for a process that stays Running is never dequeued.
C25_FifoOnceWhenYielding ==
    /\ [] FifoOrder
    /\ \A id \in 1 .. MaxTasks :
           ([]<>OwnerNotRunning(id))
               => ((id \in IdsEnqueued)
                       ~> (id \in IdsDelivered \/ id \in sched.flushed))

\* Two callbacks of one process, both delivered to it.
C25_Witness ==
    \E j, k \in DOMAIN sched.delivered :
        /\ j < k
        /\ sched.delivered[j].p = sched.delivered[k].p
        /\ processes[sched.delivered[k].p].state = "Running"

----------------------------------------------------------------------------
(* SpecLoad: load_processes over flash contents and app_memory buffers.    *)

\* The images a flash may hold: applications and padding, of two sizes,
\* asking for little or much RAM.
LoadHeaders ==
    { Header(ts, app, TRUE, ram, 129, 128) :
        ts \in {512, 1024}, app \in BOOLEAN, ram \in {256, 1024, 4096} }

LoadImages ==
    {<< >>}
        \cup { <<a>> : a \in LoadHeaders }
        \cup { <<a, b>> : a \in LoadHeaders, b \in LoadHeaders }
        \cup { <<a, b, c>> : a \in LoadHeaders, b \in LoadHeaders,
                             c \in { h \in LoadHeaders : h.total_size = 512 } }

LoadBoards ==
    { [flash |-> [start |-> 4096, images |-> images],
       app_memory_start |-> 32768,
       app_memory_len |-> len,
       fault_response |-> "Restart"] :
        images \in LoadImages, len \in {2048, 8192} }

\* Before main calls load_processes: every slot of procs is None.
InitLoad ==
    /\ processes = [i \in Procs |-> NoProcess]
    /\ work = 0
    /\ panicked = FALSE
    /\ \E board \in LoadBoards : sched = [pc |-> "flash", board |-> board]
    /\ last = Op("reset", 0, 0, Unit)

LoadProcesses ==
    /\ sched.pc = "flash"
    /\ LET st == load_processes(sched.board)
       IN /\ processes' = st.procs
          /\ work' = st.work
          /\ panicked' = st.panic
    /\ sched' = [sched EXCEPT !.pc = "loaded"]
    /\ last' = Op("load_processes", 0, 0, Unit)

NextLoad == LoadProcesses

SpecLoad == InitLoad /\ [][NextLoad]_vars

\* The windows of a process as byte ranges.
RamWindow(proc) == [ptr |-> proc.mem_start, len |-> proc.mem_len]
FlashWindow(proc) == [ptr |-> proc.flash_start, len |-> proc.flash_len]

\* C26: the RAM windows [mem_start, mem_end) of any two processes created
\* by load_processes are disjoint and lie inside app_memory, and their
\* flash windows [flash_start, flash_end) are disjoint.
C26_WindowDisjointness ==
    sched.pc = "loaded" =>
        /\ \A p \in Loaded :
               /\ sched.board.app_memory_start <= processes[p].mem_start
               /\ processes[p].mem_start + processes[p].mem_len
                      <= sched.board.app_memory_start
                             + sched.board.app_memory_len
        /\ \A p, q \in Loaded :
               p # q =>
                   /\ Disjoint(RamWindow(processes[p]),
                               RamWindow(processes[q]))
                   /\ Disjoint(FlashWindow(processes[p]),
                               FlashWindow(processes[q]))

\* Two processes loaded, of different RAM sizes and different image sizes.
C26_Witness ==
    /\ sched.pc = "loaded"
    /\ ~panicked
    /\ \E p, q \in Loaded :
           /\ p # q
           /\ processes[p].mem_len # processes[q].mem_len
           /\ processes[p].flash_len # processes[q].flash_len

\* C27: immediately after a successful create the RAM size is a power of
\* two >= max(header minimum, grant table + task buffer + process record),
\* app_break = stack_pointer = mem_start + 128, kernel_memory_break =
\* mem_end - (grant table + task buffer + process record), all grant slots
\* are null, the state is Yielded with exactly the init FunctionCall queued,
\* and mem_start <= stack_pointer <= app_break <= kernel_memory_break
\* <= mem_end.
C27_CreateLayout ==
    sched.pc = "loaded" =>
        \A p \in Loaded :
            LET proc == processes[p]
            IN /\ count_ones(proc.mem_len) = 1
               /\ proc.mem_len >= Max(proc.header.minimum_app_ram_size,
                                      KernelReserved)
               /\ proc.app_break = proc.mem_start + InitialOffset
               /\ proc.current_stack_pointer = proc.mem_start + InitialOffset
               /\ proc.kernel_memory_break
                      = proc.mem_start + proc.mem_len - KernelReserved
               /\ \A g \in Grants : proc.grant_ptrs[g] = NULL
               /\ proc.state = "Yielded"
               /\ proc.tasks
                      = <<InitTask(proc.flash_start, proc.header,
                                   proc.mem_start, proc.mem_len,
                                   proc.app_break)>>
               /\ proc.mem_start <= proc.current_stack_pointer
               /\ proc.current_stack_pointer <= proc.app_break
               /\ proc.app_break <= proc.kernel_memory_break
               /\ proc.kernel_memory_break <= proc.mem_start + proc.mem_len

\* C28: the scheduler never observes a process in state Fault: under either
\* fault policy do_process never reaches its "Attempted to schedule a
\* faulty process" panic; a process is left in Fault only by the fault_state
\* that halts the kernel.
C28_FaultNeverScheduled ==
    /\ last.op # "panic"
    /\ \A p \in Loaded : processes[p].state = "Fault" => panicked
    /\ (At("do_process") /\ processes[sched.i].is_some)
           => processes[sched.i].state # "Fault"

\* do_process has read the state of a process again after its restart, and
\* pushed its init call.
C28_Witness ==
    /\ At("do_process")
    /\ last.op = "push_function_call"
    /\ processes[sched.i].restart_count > 0
    /\ processes[sched.i].state = "Running"

----------------------------------------------------------------------------
(* SpecSlice: kernel_loop with do_process step by step: the time-slice     *)
(* timer, the check at the top of do_process's loop, the switch to user    *)
(* code, the reason it returns with and the system call dispatch.          *)
(* sched.timer is the SysTick: "reset", "full" (more than                  *)
(* MIN_QUANTA_THRESHOLD_US left), "low" (less, not yet expired),           *)
(* "overflowed".  sched.check is what the last check at the top of the     *)
(* loop found, until the next step uses it.  sched.fired is the system     *)
(* call user code returned with, until it is handled.  sched.seen lists    *)
(* the slots do_process was called on in the current sweep; sched.entry    *)
(* is the state and queue length do_process found when it was called.      *)

NoCheck == [taken |-> FALSE]
Check(pending, timer) == [taken |-> TRUE, pending |-> pending, timer |-> timer]

SchedSlice ==
    [pc |-> "boot", i |-> 0, pending |-> FALSE, live |-> << >>,
     timer |-> "reset", check |-> NoCheck, fired |-> "none",
     seen |-> << >>, entry |-> NoCheck]

\* The slots of a set in increasing order.
RECURSIVE SlotsFrom(_, _)
SlotsFrom(k, slots) ==
    IF k >= NumProcs THEN << >>
    ELSE IF k \in slots THEN <<k>> \o SlotsFrom(k + 1, slots)
    ELSE SlotsFrom(k + 1, slots)
SetToSortedSlots(slots) == SlotsFrom(0, slots)

\* The places of sched.pc inside do_process.
InDoProcess == { "do_process", "head", "yielded", "switch", "fault",
                 "syscall", "exit" }

\* The system calls get_syscall_number decodes; "NONE" is any other number.
Syscalls == { "MEMOP", "YIELD", "SUBSCRIBE", "COMMAND", "ALLOW", "NONE" }
ContextSwitchReasons == { "Fault", "SyscallFired", "Other" }

\* What memop::memop returns.
MemopResults == { "SUCCESS", "FAIL" }

\* The loop-top test that ignores how much of the quantum is left.
loop_top_breaks_late(pending, timer) ==
    pending \/ timer = "overflowed"

\* The test at the top of do_process's loop: has_pending_interrupts() ||
\* systick.overflowed() || !systick.greater_than(MIN_QUANTA_THRESHOLD_US).
loop_top_breaks(pending, timer) ==
    pending \/ timer = "overflowed" \/ timer # "full"

\* A dispatch that goes back to the top of the loop on a system call.
reason_next_drops_syscall(reason) ==
    CASE reason = "Fault" -> "fault"
      [] reason = "SyscallFired" -> "head"
      [] reason = "Other" -> "exit"

\* Where do_process goes on a context switch reason.
reason_next(reason) ==
    CASE reason = "Fault" -> "fault"
      [] reason = "SyscallFired" -> "syscall"
      [] reason = "Other" -> "exit"

\* do_process starts: systick.reset(), set_timer(KERNEL_TICK_DURATION_US),
\* enable(true).
DoProcessEnter ==
    /\ At("do_process")
    /\ sched' = [sched EXCEPT
            !.pc = "head", !.timer = "full", !.check = NoCheck,
            !.seen = Append(@, sched.i),
            !.entry = [taken |-> TRUE,
                       state |-> processes[sched.i].state,
                       tasks |-> Len(processes[sched.i].tasks)]]
    /\ UNCHANGED <<processes, work, last, panicked>>

\* chip.service_pending_interrupts() at the top of kernel_loop; a new sweep
\* starts after it.
SliceService ==
    /\ At("service")
    /\ sched' = [sched EXCEPT !.pc = "sweep", !.i = 0, !.pending = FALSE,
                              !.seen = << >>]
    /\ IF sched.pending
       THEN \E cb \in Callbacks : ScheduleOn(cb, 1, 2, 3)
       ELSE /\ last' = Op("service", 0, 0, Unit)
            /\ UNCHANGED <<processes, work, panicked>>

\* Time passes while do_process runs.
Tick ==
    /\ ~panicked
    /\ sched.pc \in InDoProcess \ {"do_process"}
    /\ sched.timer \in {"full", "low"}
    /\ sched' = [sched EXCEPT
            !.timer = IF @ = "full" THEN "low" ELSE "overflowed"]
    /\ UNCHANGED <<processes, work, last, panicked>>

\* The top of the loop: break, or match on the state of the process.
LoopTop ==
    /\ At("head")
    /\ LET p == sched.i
           found == Check(sched.pending, sched.timer)
       IN IF loop_top_breaks(sched.pending, sched.timer)
          THEN /\ sched' = [sched EXCEPT !.pc = "exit", !.check = found]
               /\ last' = Op("loop_top", p, found, Bool(FALSE))
               /\ UNCHANGED panicked
          ELSE IF processes[p].state = "Fault"
          THEN /\ panicked' = TRUE
               /\ last' = Op("panic", p, 0, Unit)
               /\ UNCHANGED sched
          ELSE /\ sched' = [sched EXCEPT
                      !.pc = IF processes[p].state = "Running"
                             THEN "switch" ELSE "yielded",
                      !.check = found]
               /\ last' = Op("loop_top", p, found, Bool(TRUE))
               /\ UNCHANGED panicked
    /\ UNCHANGED <<processes, work>>

\* The Yielded arm: no task ends the visit; a task is delivered and the
\* loop continues.
YieldedArm ==
    /\ At("yielded")
    /\ LET p == sched.i
           d == dequeue_task(processes[p], work)
       IN IF ~d.ret.is_some
          THEN /\ UNCHANGED <<processes, work>>
               /\ last' = Op("dequeue_task", p, 0, None)
               /\ sched' = [sched EXCEPT !.pc = "exit", !.check = NoCheck]
          ELSE IF d.ret.kind = "FunctionCall"
          THEN LET r == push_function_call(d.proc, d.work, d.ret)
               IN /\ processes' = [processes EXCEPT ![p] = r.proc]
                  /\ work' = r.work
                  /\ last' = Op("push_function_call", p, d.ret, r.frame)
                  /\ sched' = [sched EXCEPT !.pc = "head", !.check = NoCheck]
          ELSE /\ processes' = [processes EXCEPT ![p] = d.proc]
               /\ work' = d.work
               /\ last' = Op("ipc", p, d.ret, Unit)
               /\ sched' = [sched EXCEPT !.pc = "head", !.check = NoCheck]
    /\ UNCHANGED panicked

\* The Running arm: switch_to and switch_to_process; user code runs and
\* comes back with a stack pointer and a reason.
RunningArm ==
    /\ At("switch")
    /\ LET p == sched.i
       IN \E new_sp \in UserStackPointers(processes[p]) :
          \E reason \in ContextSwitchReasons : \E svc \in Syscalls :
            /\ reason = "Fault" => Restarts(processes) < MaxRestarts
            /\ reason # "SyscallFired" => svc = "NONE"
            /\ processes' = [processes EXCEPT
                                ![p].current_stack_pointer = new_sp]
            /\ last' = Op("switch_to", p, sched.check,
                          [state |-> processes[p].state,
                           tasks |-> Len(processes[p].tasks)])
            /\ sched' = [sched EXCEPT
                    !.pc = reason_next(reason),
                    !.check = NoCheck,
                    !.fired = IF reason = "SyscallFired" THEN svc ELSE "none"]
    /\ UNCHANGED <<work, panicked>>

\* ContextSwitchReason::Fault: fault_state, then continue.
FaultArm ==
    /\ At("fault")
    /\ ProcessFaultCall(sched.i)
    /\ sched' = [sched EXCEPT !.pc = "head"]

\* ContextSwitchReason::SyscallFired: the match on the system call number.
SyscallArm ==
    /\ At("syscall")
    /\ LET p == sched.i
       IN CASE sched.fired = "YIELD" ->
                 \E pc \in UserPCs : \E psr \in UserPSRs :
                     YieldSyscallCall(p, pc, psr)
            [] sched.fired = "MEMOP" ->
                 \E res \in MemopResults :
                     /\ last' = Op("memop", p, Registers(0, 0, 0, 0),
                                   Dispatched([res |-> res,
                                               call |-> NotInvoked]))
                     /\ UNCHANGED <<processes, work, panicked>>
            [] sched.fired = "SUBSCRIBE" ->
                 \E r0 \in DriverNums : \E driver_res \in DriverResults :
                     /\ last' = Op("subscribe", p,
                                   Registers(r0, 0, 3840, 48879),
                                   Dispatched(syscall_subscribe(p,
                                       r0 \in Drivers, 0, 3840, 48879,
                                       driver_res)))
                     /\ UNCHANGED <<processes, work, panicked>>
            [] sched.fired = "COMMAND" ->
                 \E r0 \in DriverNums : \E driver_res \in DriverResults :
                     /\ last' = Op("command", p, Registers(r0, 1, 2, 3),
                                   Dispatched(syscall_command(p,
                                       r0 \in Drivers, 1, 2, 3, driver_res)))
                     /\ UNCHANGED <<processes, work, panicked>>
            [] sched.fired = "ALLOW" ->
                 \E r0 \in DriverNums : \E driver_res \in DriverResults :
                     /\ last' = Op("allow", p,
                                   Registers(r0, 0, mem_start(processes[p]), 16),
                                   Dispatched(syscall_allow(processes[p], p,
                                       r0 \in Drivers, 0,
                                       mem_start(processes[p]), 16,
                                       driver_res)))
                     /\ UNCHANGED <<processes, work, panicked>>
            [] sched.fired = "NONE" ->
                 /\ last' = Op("no_syscall", p, 0, Unit)
                 /\ UNCHANGED <<processes, work, panicked>>
    /\ sched' = [sched EXCEPT !.pc = "head", !.fired = "none"]

\* After the loop: systick.reset().
DoProcessExit ==
    /\ At("exit")
    /\ sched' = [sched EXCEPT !.pc = "visited", !.timer = "reset",
                              !.check = NoCheck]
    /\ UNCHANGED <<processes, work, last, panicked>>

InitSlice ==
    \E board \in BoardsOne :
        LET st == load_processes(board)
        IN /\ ~st.panic
           /\ processes = st.procs
           /\ work = st.work
           /\ panicked = FALSE
           /\ sched = SchedSlice
           /\ last = Op("boot", 0, 0, Unit)

NextSlice ==
    \/ KernelLoopEnter
    \/ Interrupt
    \/ SliceService
    \/ Sweep
    \/ Visited
    \/ AtomicSleep
    \/ DoProcessEnter
    \/ Tick
    \/ LoopTop
    \/ YieldedArm
    \/ RunningArm
    \/ FaultArm
    \/ SyscallArm
    \/ DoProcessExit

SpecSlice == InitSlice /\ [][NextSlice]_vars

\* C29: user code runs only for a Running process inside its time slice:
\* switch_to is invoked only when the state is Running and the check at the
\* top of the loop just before found no pending interrupt, no overflow and
\* more than MIN_QUANTA_THRESHOLD_US left; a Yielded process with an empty
\* queue is never switched to, do_process returns; and the timer is reset
\* on every exit from do_process.
C29_RunsInsideSlice ==
    /\ [][last'.op = "switch_to" /\ last' # last
            => /\ sched.pc = "switch"
               /\ processes[last'.p].state = "Running"
               /\ last'.arg = Check(FALSE, "full")]_vars
    /\ [][(/\ sched.pc = "yielded"
           /\ processes[sched.i].tasks = << >>
           /\ sched'.pc # "yielded")
            => /\ sched'.pc = "exit"
               /\ processes' = processes]_vars
    /\ [][(sched.pc \in InDoProcess /\ sched'.pc \notin InDoProcess)
            => sched'.timer = "reset"]_vars

\* User code has run and come back, and the visit has then ended with the
\* timer reset.
C29_Witness ==
    /\ sched.pc = "visited"
    /\ sched.timer = "reset"
    /\ last.op = "switch_to"
    /\ last.arg = Check(FALSE, "full")

\* C30: a system call user code returned with is handled completely before
\* do_process checks the timer again or exits, though the time slice ran
\* out or an interrupt came during the call: the return code is in the w0
\* slot for MEMOP, SUBSCRIBE, COMMAND and ALLOW, the state is Yielded and
\* the frame is popped for YIELD.  Pending interrupts are serviced at the
\* top of kernel_loop only.
C30_SyscallAtomicity ==
    /\ [](sched.fired # "none" => sched.pc = "syscall")
    /\ [][(sched.pc = "syscall" /\ sched'.pc # "syscall")
            => /\ sched'.pc = "head"
               /\ sched'.fired = "none"
               /\ sched.fired \in {"MEMOP", "SUBSCRIBE", "COMMAND", "ALLOW"}
                      => /\ last'.op = CASE sched.fired = "MEMOP" -> "memop"
                                         [] sched.fired = "SUBSCRIBE" -> "subscribe"
                                         [] sched.fired = "COMMAND" -> "command"
                                         [] sched.fired = "ALLOW" -> "allow"
                         /\ last'.ret.w0 \in {0, -1, -6, -11}
                         /\ processes' = processes
               /\ sched.fired = "YIELD"
                      => /\ last'.op = "yield"
                         /\ processes'[sched.i].state = "Yielded"
                         /\ processes'[sched.i].current_stack_pointer
                                = offset(processes[sched.i].current_stack_pointer,
                                         FrameBytes)]_vars
    /\ [][(sched.pending /\ ~sched'.pending) => sched.pc = "service"]_vars

\* A COMMAND has been handled although the time slice ran out before
\* do_process came back to the top of its loop.
C30_Witness ==
    /\ sched.pc = "head"
    /\ last.op = "command"
    /\ sched.timer = "overflowed"
    /\ sched.fired = "none"

\* SpecSweep: the same kernel loop over a board with two applications.
InitSweep ==
    \E board \in BoardsMpu :
        LET st == load_processes(board)
        IN /\ ~st.panic
           /\ processes = st.procs
           /\ work = st.work
           /\ panicked = FALSE
           /\ sched = SchedSlice
           /\ last = Op("boot", 0, 0, Unit)

SpecSweep == InitSweep /\ [][NextSlice]_vars

\* C31: within one sweep of kernel_loop do_process is invoked on occupied
\* slots in strictly increasing slot index, each at most once; the sweep is
\* cut short only when an interrupt is pending after a visit, and the next
\* sweep then starts from slot 0 after the interrupts are serviced; a
\* process left Running is resumed on a later sweep without a new task.
C31_VisitOrder ==
    /\ [](\A j, k \in DOMAIN sched.seen :
              j < k => sched.seen[j] < sched.seen[k])
    /\ [](\A k \in DOMAIN sched.seen :
              sched.seen[k] \in Loaded /\ sched.seen[k] <= sched.i)
    /\ [][(sched'.pc = "atomic" /\ sched.pc # "atomic")
            => \/ sched.pc = "visited" /\ sched.pending
               \/ sched.pc = "sweep" /\ sched.i >= NumProcs
                    /\ sched.seen = SetToSortedSlots(Loaded)]_vars
    /\ [][(sched.pc = "atomic" /\ sched'.pc # "atomic")
            => sched'.pc \in {"service", "sleep"}]_vars
    /\ [][(sched.pc = "service" /\ sched'.pc # "service")
            => sched'.pc = "sweep" /\ sched'.i = 0 /\ ~sched'.pending]_vars
    /\ [][(/\ sched.pc = "head"
           /\ ~loop_top_breaks(sched.pending, sched.timer)
           /\ processes[sched.i].state = "Running"
           /\ sched'.pc # "head")
            => sched'.pc = "switch"]_vars

\* do_process was called on a process left Running with an empty queue, and
\* has switched to it.
C31_Witness ==
    /\ last.op = "switch_to"
    /\ sched.entry = [taken |-> TRUE, state |-> "Running", tasks |-> 0]
    /\ last.ret = [state |-> "Running", tasks |-> 0]
    /\ sched.seen = <<0, 1>>

\* The enabled applications among the images of a flash.
EnabledApps(images) ==
    { k \in DOMAIN images : images[k].is_app /\ images[k].enabled }

\* C32: disabled and padding headers are skipped without counting toward
\* the number of processes: with k <= procs.len() enabled applications in
\* flash, interleaved with any number of padding entries, and enough
\* memory, load_processes loads all k.
C32_LoadsEveryApp ==
    (/\ sched.pc = "loaded"
     /\ ~panicked
     /\ Cardinality(EnabledApps(sched.board.flash.images)) <= NumProcs)
        => Cardinality(Loaded)
               = Cardinality(EnabledApps(sched.board.flash.images))

----------------------------------------------------------------------------
(* SpecMapOr: Callback::schedule through Kernel::process_map_or, for       *)
(* application identifiers inside and outside the process array.           *)

\* Callback::schedule of a callback held for app_id: process_map_or
\* (false, app_id.idx(), closure), the closure calling schedule.
MapOrSchedule(app_id) ==
    /\ ~panicked
    /\ LET outcome == process_map_or(processes, app_id)
           call == FunctionCall(3840, 1, 2, 3, 48879)
       IN CASE outcome = "closure" ->
                 LET r == schedule(processes[app_id], work, call)
                 IN /\ processes' = [processes EXCEPT ![app_id] = r.proc]
                    /\ Dropped(processes') <= MaxDropped
                    /\ work' = r.work
                    /\ panicked' = FALSE
                    /\ last' = Op("process_map_or", app_id, outcome,
                                  Bool(r.ret))
            [] outcome = "default" ->
                 /\ last' = Op("process_map_or", app_id, outcome,
                               Bool(FALSE))
                 /\ UNCHANGED <<processes, work, panicked>>
            [] outcome = "panic" ->
                 /\ panicked' = TRUE
                 /\ last' = Op("process_map_or", app_id, outcome, Unit)
                 /\ UNCHANGED <<processes, work>>
    /\ UNCHANGED sched

InitMapOr == Boot(BoardsGrant)

NextMapOr ==
    \/ \E app_id \in AppIds : MapOrSchedule(app_id)
    \/ \E p \in Loaded : DeliverTask(p)
    \/ \E p \in Loaded : \E pc \in UserPCs : \E psr \in UserPSRs :
           YieldSyscall(p, pc, psr)
    \/ \E p \in Loaded : ProcessFault(p)

SpecMapOr == InitMapOr /\ [][NextMapOr]_vars

\* C33: process_map_or returns the default, without running the closure
\* and without panicking, for every index that names no existing process,
\* every index >= the number of slots included; otherwise it runs the
\* closure once on the process.
C33_MapOrDefault ==
    last.op = "process_map_or" =>
        IF last.p \in Procs /\ processes[last.p].is_some
        THEN last.arg = "closure" /\ ~panicked
        ELSE last.arg = "default" /\ ~panicked

----------------------------------------------------------------------------
(* SpecIdle: SpecLoop with the kernel's own steps taken whenever they can  *)
(* be: kernel_loop never stops of itself.                                  *)

KernelStep ==
    \/ KernelLoopEnter
    \/ ServicePendingInterrupts
    \/ Sweep
    \/ Visited
    \/ DoProcessBreak
    \/ DoProcessYielded
    \/ AtomicSleep

SpecIdle == InitLoop /\ [][NextLoop]_vars /\ WF_vars(KernelStep)

\* No interrupt is pending and every process has yielded with an empty
\* queue.
AllIdle ==
    /\ ~sched.pending
    /\ \A p \in Loaded :
           processes[p].state = "Yielded" /\ processes[p].tasks = << >>

\* C34: in every run in which from some point on no interrupt arrives, no
\* driver schedules a task and every process has yielded with an empty
\* queue, the work counter is zero and kernel_loop comes to chip.sleep(),
\* also after a restart or a schedule that failed on a full queue.
C34_IdleImpliesSleep ==
    (<>[]AllIdle) => <>[](work = 0 /\ sched.pc = "sleep")

----------------------------------------------------------------------------
(* SpecFrame: the frames push_function_call writes, for processes created  *)
(* with little and with much RAM.                                          *)

BoardsFrame ==
    { Board(<<AppHeader(m)>>, "Restart") : m \in {256, 1024} }

InitFrame == Boot(BoardsFrame)

NextFrame ==
    \/ \E cb \in Callbacks : \E r0 \in {1, 2} : CallbackSchedule(cb, r0, 2, 3)
    \/ \E p \in Loaded : DeliverTask(p)
    \/ \E p \in Loaded : \E sp \in UserStackPointers(processes[p]) :
           SwitchToProcess(p, sp)
    \/ \E p \in Loaded : \E pc \in UserPCs : \E psr \in UserPSRs :
           YieldSyscall(p, pc, psr)
    \/ \E p \in Loaded : ProcessFault(p)

SpecFrame == InitFrame /\ [][NextFrame]_vars

\* C35: the eight words push_function_call writes at [sp - 8 words, sp) lie
\* inside the process's RAM window [mem_start, mem_end) and below its
\* kernel_memory_break, for every stack pointer the process can have when
\* a task is delivered.
C35_FrameInsideProcess ==
    last.op = "push_function_call" =>
        LET proc == processes[last.p]
            sp == proc.current_stack_pointer
        IN /\ last.ret.stack_bottom = sp
           /\ proc.mem_start <= sp
           /\ sp + FrameBytes <= proc.mem_start + proc.mem_len
           /\ sp + FrameBytes <= proc.kernel_memory_break

\* C36: the AppSlice an accepted ALLOW hands to a driver contains no byte
\* of the kernel-reserved region [kernel_memory_break, mem_end) of the
\* process that owns it.
C36_SliceOutsideKernelRegion ==
    (last.op = "allow" /\ last.ret.call.invoked
        /\ last.ret.call.slice.is_some) =>
        LET proc == processes[last.p]
            slice == last.ret.call.slice
        IN \A b \in { proc.kernel_memory_break,
                      proc.mem_start + proc.mem_len - 1 } :
              ~(slice.ptr <= b /\ b < slice.ptr + slice.len)

----------------------------------------------------------------------------
(* SpecWord: Process::alloc called with sizes from the whole range of the  *)
(* machine word.                                                           *)

\* Sizes passed to Process::alloc: none, a small one, and sizes in the
\* upper half of the machine word.
WordSizes == { 0, 256, PtrMod \div 2, PtrMod - 256 }

\* Process::alloc of the process in slot p.
ProcessAlloc(p, size) ==
    /\ ~panicked
    /\ processes[p].is_some
    /\ LET r == alloc(processes[p], size)
       IN /\ processes' = [processes EXCEPT ![p] = r.proc]
          /\ last' = Op("process_alloc", p, size, r.ret)
    /\ UNCHANGED <<work, sched, panicked>>

InitWord == Boot(BoardsOne)

NextWord ==
    \/ \E p \in Loaded : \E size \in WordSizes : ProcessAlloc(p, size)
    \/ \E p \in Loaded : \E nb \in BrkTargets(processes[p]) : Brk(p, nb)
    \/ \E p \in Loaded : DeliverTask(p)
    \/ \E p \in Loaded : ProcessFault(p)

SpecWord == InitWord /\ [][NextWord]_vars

\* C37: for every size of the machine word, alloc(size) either fails and
\* leaves kernel_memory_break unchanged, or returns a range
\* [new_break, new_break + size) with app_break <= new_break <= the old
\* kernel_memory_break; it never moves kernel_memory_break upward and never
\* returns a range that extends past the old kernel_memory_break.
C37_AllocEveryWord ==
    [][\A p \in Loaded :
          (last'.op = "process_alloc" /\ last'.p = p) =>
             LET old == processes[p]
                 new == processes'[p]
                 size == last'.arg
             IN /\ new.kernel_memory_break <= old.kernel_memory_break
                /\ IF last'.ret.ok
                   THEN /\ last'.ret.len = size
                        /\ old.app_break <= last'.ret.val
                        /\ last'.ret.val <= old.kernel_memory_break
                        /\ last'.ret.val + size <= old.kernel_memory_break
                   ELSE new.kernel_memory_break = old.kernel_memory_break
      ]_vars

----------------------------------------------------------------------------
(* SpecRegion: the MPU regions setup_mpu installs before a process runs,   *)
(* as the two breaks of the process move.                                  *)

\* PowerOfTwo::ceiling(n): the exponent of the smallest power of two >= n.
PowerOfTwo_ceiling(n) == PowerOfTwo_floor(closest_power_of_two(n))

\* What setup_mpu hands to create_region, or Region::empty(num).
Region(num, base, len, execute, access) ==
    [num |-> num, base |-> base, len |-> len, execute |-> execute,
     access |-> access]
Region_empty(num) == Region(num, NULL, 0, FALSE, "NoAccess")

\* The regions setup_mpu installs, by region number + 1: flash, RAM, the
\* grant region, then the IPC table.
setup_mpu(proc) ==
    LET grant_len == as_num(PowerOfTwo_ceiling(
                         (mem_end(proc) - proc.kernel_memory_break) % PtrMod))
        grant_base == offset(mem_end(proc), -as_isize(grant_len))
    IN [ n \in 1..(3 + MpuRegionCount) |->
           CASE n = 1 -> Region(0, proc.flash_start, proc.flash_len,
                                TRUE, "ReadOnly")
             [] n = 2 -> Region(1, proc.mem_start, proc.mem_len,
                                TRUE, "ReadWrite")
             [] n = 3 -> Region(2, grant_base, grant_len,
                                FALSE, "PrivilegedOnly")
             [] OTHER ->
                  LET region == proc.mpu_regions[n - 3]
                  IN IF region.base = NULL THEN Region_empty(n - 1)
                     ELSE Region(n - 1, region.base, as_num(region.size),
                                 TRUE, "ReadWrite") ]

\* do_process on a Running process, up to the switch: setup_mpu.
SetupMpu(p) ==
    /\ ~panicked
    /\ processes[p].is_some /\ processes[p].state = "Running"
    /\ last' = Op("setup_mpu", p, 0, setup_mpu(processes[p]))
    /\ UNCHANGED <<processes, work, sched, panicked>>

InitRegion == Boot(BoardsOne)

NextRegion ==
    \/ \E p \in Loaded : DeliverTask(p)
    \/ \E p \in Loaded : SetupMpu(p)
    \/ \E p \in Loaded : \E nb \in BrkTargets(processes[p]) : Brk(p, nb)
    \/ \E p \in Procs : \E g \in Grants : GrantEnter(p, g)
    \/ \E p \in Loaded : ProcessFault(p)

SpecRegion == InitRegion /\ [][NextRegion]_vars

\* C38: for every reachable kernel_memory_break and app_break, region 2
\* of setup_mpu has a power-of-two length, ends at mem_end, contains every
\* byte of [kernel_memory_break, mem_end) and contains no byte of the
\* user-visible range [mem_start, app_break).
C38_GrantRegionCoverage ==
    last.op = "setup_mpu" =>
        LET proc == processes[last.p]
            end == proc.mem_start + proc.mem_len
            region == last.ret[3]
        IN /\ region.num = 2
           /\ region.access = "PrivilegedOnly" /\ ~region.execute
           /\ count_ones(region.len) = 1
           /\ region.base + region.len = end
           /\ region.base <= proc.kernel_memory_break
           /\ proc.app_break <= region.base

----------------------------------------------------------------------------
(* SpecRefault: a process that shares IPC regions, faults, restarts and    *)
(* runs again.                                                             *)

\* Regions other processes expose to the first process.
RefaultRequests ==
    { [base |-> 32, size |-> 16], [base |-> 32, size |-> 32],
      [base |-> 48, size |-> 16], [base |-> 80, size |-> 16] }

InitRefault == Boot(BoardsOne)

NextRefault ==
    \/ \E req \in RefaultRequests : AddMpuRegion(req.base, req.size)
    \/ \E p \in Loaded : DeliverTask(p)
    \/ \E p \in Loaded : SetupMpu(p)
    \/ \E p \in Loaded : \E pc \in UserPCs : \E psr \in UserPSRs :
           YieldSyscall(p, pc, psr)
    \/ \E p \in Loaded : ProcessFault(p)

SpecRefault == InitRefault /\ [][NextRefault]_vars

\* C40: fault_state under Restart leaves the IPC MPU region table of the
\* process as it was, every (base, size) entry at its index, and leaves its
\* RAM window, its flash window and its fault policy unchanged; setup_mpu
\* installs every entry of the table at region index + 3.
C40_RestartKeepsMpuTable ==
    /\ [][\A p \in Loaded :
            (last'.op = "fault_state" /\ last'.p = p
                /\ processes[p].fault_response = "Restart") =>
               LET old == processes[p]
                   new == processes'[p]
               IN /\ new.mpu_regions = old.mpu_regions
                  /\ new.mem_start = old.mem_start
                  /\ new.mem_len = old.mem_len
                  /\ new.flash_start = old.flash_start
                  /\ new.flash_len = old.flash_len
                  /\ new.fault_response = old.fault_response
         ]_vars
    /\ [](last.op = "setup_mpu" =>
            \A i \in 1..MpuRegionCount :
               LET region == processes[last.p].mpu_regions[i]
               IN last.ret[3 + i] =
                     IF region.base = NULL THEN Region_empty(i + 2)
                     ELSE Region(i + 2, region.base, as_num(region.size),
                                 TRUE, "ReadWrite"))

\* A restarted process that held two IPC regions runs again, and setup_mpu
\* has installed both.
C40_Witness ==
    /\ last.op = "setup_mpu"
    /\ processes[last.p].restart_count >= 1
    /\ last.ret[4].base = 32 /\ last.ret[4].len = 32
    /\ last.ret[5].base = 48 /\ last.ret[5].len = 16

----------------------------------------------------------------------------
(* SpecQuiet: the kernel loop of SpecSweep under fairness.  The kernel     *)
(* takes its next step, user code comes back from every switch, and the    *)
(* SysTick counts down while user code and its system calls run: the       *)
(* quantum (KERNEL_TICK_DURATION_US) is long against the kernel's own path *)
(* from set_timer to the first check of the loop.                          *)

\* Time passes while user code runs or one of its calls is handled.
UserTick ==
    /\ sched.pc \in {"switch", "syscall", "fault"}
    /\ Tick

\* User code in this specification yields, makes a call that leaves it
\* Running, faults or is preempted; what the other system calls do is
\* covered by SpecSlice.
QuietRunningArm ==
    /\ RunningArm
    /\ sched'.fired \in {"none", "YIELD", "NONE"}

\* An interrupt arrives while the process its handler schedules a callback
\* for has an empty queue.
QuietInterrupt ==
    /\ Interrupt
    /\ \A cb \in Callbacks : processes[cb.app_id].tasks = << >>

\* The steps of kernel_loop and do_process, the return of user code
\* included.
KernelSliceStep ==
    \/ KernelLoopEnter
    \/ SliceService
    \/ Sweep
    \/ Visited
    \/ AtomicSleep
    \/ DoProcessEnter
    \/ LoopTop
    \/ YieldedArm
    \/ QuietRunningArm
    \/ FaultArm
    \/ SyscallArm
    \/ DoProcessExit

NextQuiet ==
    \/ QuietInterrupt
    \/ UserTick
    \/ KernelSliceStep

SpecQuiet ==
    /\ InitSweep
    /\ [][NextQuiet]_vars
    /\ WF_vars(KernelSliceStep)
    /\ SF_vars(UserTick)

\* The process in slot p has something to run, and do_process is not in
\* the middle of a visit to it.
Needs(p) ==
    /\ processes[p].is_some
    /\ processes[p].state = "Running" \/ processes[p].tasks # << >>
    /\ ~(sched.i = p /\ sched.pc \in InDoProcess \ {"do_process"})

\* do_process has resumed the process in slot p or handed it a task.
Served(p) ==
    /\ last.p = p
    /\ last.op \in {"switch_to", "push_function_call", "ipc"}

\* C39: if from some point on no interrupt is pending, every process that
\* is Running or has a non-empty task queue is eventually visited by
\* do_process and resumed or handed its head task, whatever its slot and
\* whatever the processes in lower slots do.
C39_NoStarvation ==
    (<>[](~sched.pending)) =>
        \A p \in Procs : [](Needs(p) => <>Served(p))

\* With no interrupt pending, the process in slot 1 is resumed while the
\* process in slot 0, restarted after a fault, is Running with a callback
\* queued.
C39_Witness ==
    /\ ~sched.pending
    /\ Served(1) /\ last.op = "switch_to"
    /\ processes[0].state = "Running"
    /\ processes[0].restart_count >= 1
    /\ processes[0].tasks # << >>

====
